---- MODULE Spec2Model ----
(***************************************************************************)
(* A model of the sox interpreter: the environment store (a SlotMap of     *)
(* namespaces with parent links and child counters), the resolver, and the *)
(* tree-walking evaluator with functions, classes, bound methods, `this`   *)
(* and `super`.  A program is an AST built from records; `interpret` runs  *)
(* one top-level statement per step.                                       *)
(***************************************************************************)
EXTENDS Integers, Sequences, FiniteSets, TLC

VARIABLES
    prog,     \* the program being run (a name in the program library)
    inp,      \* the inputs the program text is instantiated with
    phase,    \* "parsed", "running", "done", "halted", "rejected", "panicked", "diverged"
    pc,       \* index of the next top-level statement `interpret` executes
    st,       \* the interpreter: _locals, environment store, instances, output, ghost log
    last,     \* the result `interpret` received for the last top-level statement
    front     \* the front end: the source text, the Lexer, its tokens, the parse result

vars == <<prog, inp, phase, pc, st, last, front>>

-----------------------------------------------------------------------------
(* Bounds of the model *)

\* iterations of `while` and nested calls one top-level statement may use
MaxFuel == 6

-----------------------------------------------------------------------------
(* Tokens (token.rs) *)

Token(token_type, lexeme, line, id) ==
    [token_type |-> token_type, lexeme |-> lexeme, line |-> line, id |-> id]

Ident(lexeme, id) == Token("Identifier", lexeme, 1, id)

-----------------------------------------------------------------------------
(* Runtime values (core.rs SoxObject).  t is the variant, v its payload. *)

NoneV == [t |-> "none", v |-> 0]
IntV(i) == [t |-> "int", v |-> i]
FloatV(f) == [t |-> "float", v |-> f]
BoolV(b) == [t |-> "bool", v |-> b]
StrV(s) == [t |-> "str", v |-> s]
FuncV(f) == [t |-> "func", v |-> f]
TypeV(c) == [t |-> "type", v |-> c]
InstV(i) == [t |-> "inst", v |-> i]

\* SoxFunction { name, declaration, environment_ref, is_initializer, arity }
SoxFunction(name, declaration, environment_ref, arity, is_initializer) ==
    [name |-> name, declaration |-> declaration, environment_ref |-> environment_ref,
     is_initializer |-> is_initializer, arity |-> arity]

\* `len as i8`: the low eight bits, read as a signed byte
AsI8(n) ==
    LET m == n % 256 IN IF m >= 128 THEN m - 256 ELSE m

\* `args.len() != fo.arity as usize`: a negative byte sign-extends to a value
\* of at least 2^64 - 128, which no argument vector's length reaches
ArityMatches(len, arity) ==
    arity >= 0 /\ len = arity

\* results: Ok(value) | Err(Exception::Err) | Err(Exception::Return) | a Rust panic
Ok(v) == [k |-> "ok", v |-> v, msg |-> ""]
Return(v) == [k |-> "ret", v |-> v, msg |-> ""]
ErrR(msg) == [k |-> "err", v |-> NoneV, msg |-> msg]
Panic == [k |-> "panic", v |-> NoneV, msg |-> ""]
Diverge == [k |-> "fuel", v |-> NoneV, msg |-> ""]

\* what `?` propagates, together with what unwinds the whole process
IsErr(r) == r.k # "ok"
Aborts(r) == r.k \in {"panic", "fuel"}

-----------------------------------------------------------------------------
(* The environment store (environment.rs).                                   *)
(* envs is a SlotMap: a key is a slot index with the version the slot had    *)
(* when the key was made; a removed slot is reused, most recently freed      *)
(* first, under a later version, so that a stale key never matches again.    *)
(* env_rc is a SecondaryMap: one entry per slot index, tagged with the       *)
(* version of the key it was stored under.                                   *)

Key(idx, ver) == [idx |-> idx, ver |-> ver]

Binding(name, value) == [name |-> name, value |-> value]

\* Environment::new
NewEnvironment ==
    [envs |-> (Key(1, 1) :> <<>>),
     slot_ver |-> <<1>>,
     free |-> <<>>,
     active |-> Key(1, 1),
     global |-> Key(1, 1),
     env_link |-> <<>>,
     env_rc |-> <<>>]

\* no key: what Option::None stands for where a key is expected
NoKey == Key(0, 0)

\* a key met on a walk whose namespace is no longer in the store
DeadKey == Key(0, 1)

Live(e, k) == k \in DOMAIN e.envs

\* SlotMap::insert: the key the next insertion returns
NextKey(e) ==
    IF e.free # <<>>
    THEN Key(Head(e.free), e.slot_ver[Head(e.free)] + 1)
    ELSE Key(Len(e.slot_ver) + 1, 1)

\* SlotMap::insert of an empty Namespace
InsertNamespace(e) ==
    LET k == NextKey(e) IN
    [e EXCEPT !.envs = (k :> <<>>) @@ @,
              !.slot_ver = IF e.free # <<>> THEN [@ EXCEPT ![k.idx] = k.ver]
                           ELSE Append(@, 1),
              !.free = IF e.free # <<>> THEN Tail(@) ELSE @]

\* SlotMap::remove
RemoveNamespace(e, k) ==
    IF ~Live(e, k) THEN e
    ELSE [e EXCEPT !.envs = [j \in (DOMAIN e.envs) \ {k} |-> e.envs[j]],
                   !.slot_ver = [@ EXCEPT ![k.idx] = k.ver + 1],
                   !.free = <<k.idx>> \o @]

\* SecondaryMap::contains_key
RcContains(rc, k) ==
    k.idx \in DOMAIN rc /\ rc[k.idx].ver = k.ver

\* SecondaryMap::entry: None for a key older than the one stored in its slot
RcEntry(rc, k) ==
    IF k.idx \notin DOMAIN rc THEN "vacant"
    ELSE IF rc[k.idx].ver = k.ver THEN "occupied"
    ELSE IF k.ver < rc[k.idx].ver THEN "none"
    ELSE "vacant"

RcPut(rc, k, val) ==
    (k.idx :> [ver |-> k.ver, val |-> val]) @@ rc

\* SecondaryMap::insert: an older key does not replace a newer entry
RcInsert(rc, k, val) ==
    IF RcEntry(rc, k) = "none" THEN rc ELSE RcPut(rc, k, val)

\* a counter that starts again at 1 with every child
RcIncrement_from_one(rc, parent) ==
    RcInsert(rc, parent, 1)

\* the if/else of new_local_env_at and new_local_env on the parent's counter
RcIncrement(rc, parent) ==
    IF RcContains(rc, parent)
    THEN RcPut(rc, parent, rc[parent.idx].val + 1)
    ELSE RcInsert(rc, parent, 1)

\* Environment::new_local_env_at: the store afterwards (the new key is NextKey)
new_local_env_at(e, enclosing_env_ref) ==
    LET k == NextKey(e)
        e1 == InsertNamespace(e)
    IN [e1 EXCEPT !.env_link = (k :> enclosing_env_ref) @@ @,
                  !.env_rc = RcIncrement(@, enclosing_env_ref)]

\* Environment::new_local_env: as above under the active frame, which it replaces
new_local_env(e) ==
    [new_local_env_at(e, e.active) EXCEPT !.active = NextKey(e)]

\* Namespace::define, through Environment::define_at
define_at(e, key, value, ns_ref) ==
    [e EXCEPT !.envs[ns_ref] = Append(@, Binding(key, value))]

\* Environment::define: unwraps the active namespace
define(e, key, value) ==
    define_at(e, key, value, e.active)

\* Index of the first binding of a name in a namespace, 0 when there is none
FirstIndex(bindings, name) ==
    IF \E i \in 1..Len(bindings) : bindings[i].name = name
    THEN CHOOSE i \in 1..Len(bindings) :
            /\ bindings[i].name = name
            /\ \A j \in 1..(i - 1) : bindings[j].name # name
    ELSE 0

NameError(name, period) ==
    "NameError: name '" \o name \o "' is not defined" \o period

\* Environment::get_from_global_scope
get_from_global_scope(e, key) ==
    LET b == e.envs[e.global]
        i == FirstIndex(b, key)
    IN IF i # 0 THEN Ok(b[i].value) ELSE ErrR(NameError(key, "."))

\* The frame `dist` parent links above `from`: NoKey when a link is missing
RECURSIVE Climb(_, _, _)
Climb(e, from, dist) ==
    IF dist = 0 THEN from
    ELSE IF from \in DOMAIN e.env_link THEN Climb(e, e.env_link[from], dist - 1)
    ELSE NoKey

\* The frames visited on the way, the start excluded
RECURSIVE ClimbPath(_, _, _)
ClimbPath(e, from, dist) ==
    IF dist = 0 \/ from \notin DOMAIN e.env_link THEN <<>>
    ELSE <<e.env_link[from]>> \o ClimbPath(e, e.env_link[from], dist - 1)

\* Environment::get with key (name, dist_to_ns, binding_idx); indices from 0
get(e, name, dist_to_ns, binding_idx) ==
    LET path == ClimbPath(e, e.active, dist_to_ns)
        target == Climb(e, e.active, dist_to_ns)
    IN IF ~Live(e, e.active) THEN Panic
       ELSE IF \E i \in 1..Len(path) : ~Live(e, path[i]) THEN Panic
       ELSE IF target = NoKey THEN ErrR(NameError(name, ""))
       ELSE IF binding_idx + 1 <= Len(e.envs[target])
            THEN Ok(e.envs[target][binding_idx + 1].value)
            ELSE ErrR(NameError(name, ""))

\* an assign that writes the first binding of the name in the frame it reaches
assign_first_of_name(e, name, dist_to_ns, binding_idx, value) ==
    LET target == Climb(e, e.active, dist_to_ns) IN
    IF target = NoKey THEN [e |-> e, r |-> Panic]
    ELSE IF ~Live(e, target) THEN [e |-> e, r |-> Panic]
    ELSE IF binding_idx + 1 > Len(e.envs[target]) THEN [e |-> e, r |-> Panic]
    ELSE IF FirstIndex(e.envs[target], name) # 0
         THEN [e |-> [e EXCEPT !.envs[target][FirstIndex(e.envs[target], name)].value
                                  = value],
               r |-> Ok(NoneV)]
         ELSE [e |-> e, r |-> Ok(NoneV)]

\* Environment::assign over Namespace::assign: the store afterwards, or a panic
assign(e, name, dist_to_ns, binding_idx, value) ==
    LET target == Climb(e, e.active, dist_to_ns) IN
    IF target = NoKey THEN [e |-> e, r |-> Panic]
    ELSE IF ~Live(e, target) THEN [e |-> e, r |-> Panic]
    ELSE IF binding_idx + 1 > Len(e.envs[target]) THEN [e |-> e, r |-> Panic]
    ELSE IF e.envs[target][binding_idx + 1].name = name
         THEN [e |-> [e EXCEPT !.envs[target][binding_idx + 1].value = value],
               r |-> Ok(NoneV)]
         ELSE [e |-> e, r |-> Ok(NoneV)]

\* The first frame, from `from` outward, that binds `name`: NoKey when no frame
\* does, DeadKey when the walk reaches a frame that is no longer in the store
RECURSIVE FindFrame(_, _, _)
FindFrame(e, from, name) ==
    IF ~Live(e, from) THEN DeadKey
    ELSE IF FirstIndex(e.envs[from], name) # 0 THEN from
    ELSE IF from \in DOMAIN e.env_link THEN FindFrame(e, e.env_link[from], name)
    ELSE NoKey

\* Environment::find_and_get
find_and_get(e, key) ==
    LET f == FindFrame(e, e.active, key) IN
    IF f = DeadKey THEN Panic
    ELSE IF f = NoKey THEN ErrR(NameError(key, ""))
    ELSE Ok(e.envs[f][FirstIndex(e.envs[f], key)].value)

\* Environment::find_and_assign
find_and_assign(e, key, value) ==
    LET f == FindFrame(e, e.active, key) IN
    IF f = DeadKey THEN [e |-> e, r |-> Panic]
    ELSE IF f = NoKey THEN [e |-> e, r |-> ErrR(NameError(key, "."))]
    ELSE [e |-> [e EXCEPT !.envs[f][FirstIndex(e.envs[f], key)].value = value],
          r |-> Ok(NoneV)]

\* Environment::pop: the store afterwards, or a panic
pop(e) ==
    IF e.active \notin DOMAIN e.env_link THEN [e |-> e, r |-> Panic]
    ELSE
    LET active == e.active
        parent == e.env_link[active]
        e1 == [e EXCEPT !.active = parent]
    IN  IF RcEntry(e.env_rc, active) = "none" THEN [e |-> e1, r |-> Panic]
        ELSE
        LET rc1 == IF RcEntry(e.env_rc, active) = "vacant"
                   THEN RcPut(e.env_rc, active, 0) ELSE e.env_rc
        IN  IF rc1[active.idx].val # 0
            THEN [e |-> [e1 EXCEPT !.env_rc = rc1], r |-> Ok(NoneV)]
            ELSE
            LET e2 == RemoveNamespace([e1 EXCEPT !.env_rc = rc1], active) IN
            IF RcEntry(rc1, parent) = "none" THEN [e |-> e2, r |-> Panic]
            ELSE [e |-> [e2 EXCEPT
                    !.env_rc = IF RcEntry(rc1, parent) = "occupied"
                               THEN RcPut(rc1, parent, rc1[parent.idx].val - 1)
                               ELSE rc1,
                    !.env_link = [j \in (DOMAIN e.env_link) \ {active} |-> e.env_link[j]]],
                  r |-> Ok(NoneV)]

-----------------------------------------------------------------------------
(* The syntax tree (expr.rs, stmt.rs).  An absent Option is NoExpr / NoStmt. *)

NoExpr == [k |-> "absent"]
NoStmt == [k |-> "absent"]

Literal(value) == [k |-> "Literal", value |-> value]
Variable(name) == [k |-> "Variable", name |-> name]
Assign(name, value) == [k |-> "Assign", name |-> name, value |-> value]
Binary(left, operator, right) ==
    [k |-> "Binary", left |-> left, operator |-> operator, right |-> right]
Logical(left, operator, right) ==
    [k |-> "Logical", left |-> left, operator |-> operator, right |-> right]
Unary(operator, right) == [k |-> "Unary", operator |-> operator, right |-> right]
Grouping(expr) == [k |-> "Grouping", expr |-> expr]
Call(callee, arguments) == [k |-> "Call", callee |-> callee, arguments |-> arguments]
Get(object, name) == [k |-> "Get", object |-> object, name |-> name]
Set(object, name, value) ==
    [k |-> "Set", object |-> object, name |-> name, value |-> value]
This(keyword) == [k |-> "This", keyword |-> keyword]
Super(keyword, method) == [k |-> "Super", keyword |-> keyword, method |-> method]

Expression(expr) == [k |-> "Expression", expr |-> expr]
PrintStmt(expr) == [k |-> "Print", expr |-> expr]
Var(name, initializer) == [k |-> "Var", name |-> name, initializer |-> initializer]
Block(statements) == [k |-> "Block", statements |-> statements]
If(condition, then_branch, else_branch) ==
    [k |-> "If", condition |-> condition, then_branch |-> then_branch,
     else_branch |-> else_branch]
While(condition, body) == [k |-> "While", condition |-> condition, body |-> body]
Function(name, params, body) ==
    [k |-> "Function", name |-> name, params |-> params, body |-> body]
ReturnStmt(keyword, value) == [k |-> "Return", keyword |-> keyword, value |-> value]
Class(name, superclass, methods) ==
    [k |-> "Class", name |-> name, superclass |-> superclass, methods |-> methods]

-----------------------------------------------------------------------------
(* Classes and instances (builtins/type.rs) *)

\* SoxType of a user class: base is <<>> or <<the base class>>
SoxType(name, base, attributes) ==
    [name |-> name, base |-> base, attributes |-> attributes]

\* a lookup that prefers the base class over the class itself
RECURSIVE find_method_base_first(_, _)
find_method_base_first(typ, name) ==
    LET up == IF Len(typ.base) = 1 THEN find_method_base_first(typ.base[1], name)
              ELSE <<>>
    IN IF Len(up) = 1 THEN up
       ELSE IF name \in DOMAIN typ.attributes THEN <<typ.attributes[name]>>
       ELSE <<>>

\* SoxType::find_method: <<>> or <<the method>>
RECURSIVE find_method(_, _)
find_method(typ, name) ==
    IF name \in DOMAIN typ.attributes THEN <<typ.attributes[name]>>
    ELSE IF Len(typ.base) = 1 THEN find_method(typ.base[1], name)
    ELSE <<>>

\* METHOD_DEFS of the built-in classes, as create_static_type collects them
\* into SoxType::methods; a user class is built with an empty table
METHOD_DEFS(t) ==
    CASE t = "none" -> {"bool", "equals"}
      [] t = "bool" -> {"bool", "equals"}
      [] t = "int" -> {"equals"}
      [] t = "float" -> {"equals"}
      [] t = "func" -> {"equals"}
      [] t = "str" -> {"equals"}
      [] OTHER -> {}

\* SoxNone::bool and SoxBool::bool
bool_method(v) ==
    IF v.t = "bool" THEN v.v ELSE FALSE

\* SoxObject::try_into_rust_bool
try_into_rust_bool(v) ==
    IF "bool_" \in METHOD_DEFS(v.t) THEN bool_method(v) ELSE TRUE

-----------------------------------------------------------------------------
(* The interpreter (interpreter.rs).  An operator takes the interpreter s    *)
(* and returns the interpreter afterwards with the Rust result: [s, r].      *)

\* Interpreter::new after `_locals` is set; tokens is the value of TOKEN_ATOMIC
NewInterpreter(resolved, tokens) ==
    [environment |-> NewEnvironment, locals |-> resolved, heap |-> <<>>,
     out |-> <<>>, token_atomic |-> tokens, fuel |-> MaxFuel,
     errs |-> 0, log |-> <<>>, overflow_checks |-> TRUE]

R(s, r) == [s |-> s, r |-> r]

\* `let x = v;` followed by the code Op(x): v is computed once
Let(v, Op(_)) == CHOOSE out \in {Op(x) : x \in {v}} : TRUE

\* SoxInt holds an i64.  An integer below 2^31 in magnitude is written as
\* itself; a larger one has the field wide and is written by its sign and
\* its magnitude, the base-100 limbs from the least significant one, without
\* leading zeros.  The operators below compute on magnitudes of any length.
Limb == 100

RECURSIVE MagOf(_)
MagOf(n) == IF n = 0 THEN <<>> ELSE <<n % Limb>> \o MagOf(n \div Limb)

RECURSIVE NatOf(_)
NatOf(mag) == IF mag = <<>> THEN 0 ELSE mag[1] + Limb * NatOf(Tail(mag))

RECURSIVE Trim(_)
Trim(mag) ==
    IF mag # <<>> /\ mag[Len(mag)] = 0 THEN Trim(SubSeq(mag, 1, Len(mag) - 1))
    ELSE mag

LimbAt(mag, i) == IF i <= Len(mag) THEN mag[i] ELSE 0

MagLess(a, b) ==
    \/ Len(a) < Len(b)
    \/ /\ Len(a) = Len(b)
       /\ \E i \in 1..Len(a) :
             a[i] < b[i] /\ \A j \in (i + 1)..Len(a) : a[j] = b[j]

RECURSIVE AddFrom(_, _, _, _)
AddFrom(a, b, i, carry) ==
    IF i > Len(a) /\ i > Len(b) THEN MagOf(carry)
    ELSE <<(LimbAt(a, i) + LimbAt(b, i) + carry) % Limb>>
         \o AddFrom(a, b, i + 1, (LimbAt(a, i) + LimbAt(b, i) + carry) \div Limb)

MagAdd(a, b) == AddFrom(a, b, 1, 0)

\* a - b for a >= b
RECURSIVE SubFrom(_, _, _, _)
SubFrom(a, b, i, borrow) ==
    IF i > Len(a) THEN <<>>
    ELSE <<(a[i] - LimbAt(b, i) - borrow + Limb) % Limb>>
         \o SubFrom(a, b, i + 1, IF a[i] - LimbAt(b, i) - borrow < 0 THEN 1 ELSE 0)

MagSub(a, b) == Trim(SubFrom(a, b, 1, 0))

\* a * q for one limb q
RECURSIVE TimesFrom(_, _, _, _)
TimesFrom(a, q, i, carry) ==
    IF i > Len(a) THEN MagOf(carry)
    ELSE <<(a[i] * q + carry) % Limb>>
         \o TimesFrom(a, q, i + 1, (a[i] * q + carry) \div Limb)

MagTimes(a, q) == Trim(TimesFrom(a, q, 1, 0))

\* a * Limb
MagShift(a) == IF a = <<>> THEN <<>> ELSE <<0>> \o a

RECURSIVE MagMul(_, _)
MagMul(a, b) ==
    IF a = <<>> \/ b = <<>> THEN <<>>
    ELSE MagAdd(MagTimes(a, b[1]), MagShift(MagMul(a, Tail(b))))

\* a mod b for b > 0: (a mod (b * Limb)) mod b, the second by one quotient limb
RECURSIVE MagMod(_, _)
MagMod(a, b) ==
    IF MagLess(a, b) THEN a
    ELSE Let(MagMod(a, MagShift(b)), LAMBDA r :
         Let(CHOOSE q \in 0..(Limb - 1) :
                /\ ~MagLess(r, MagTimes(b, q))
                /\ MagLess(r, MagTimes(b, q + 1)), LAMBDA q :
         MagSub(r, MagTimes(b, q))))

\* 2^31, 2^63 and 2^64
Two31 == MagAdd(MagOf(2147483647), <<1>>)
Two63 == MagTimes(MagMul(Two31, Two31), 2)
Two64 == MagTimes(Two63, 2)

\* an integer of any size by sign and magnitude; zero is not negative
Wide(neg, mag) == [neg |-> neg /\ mag # <<>>, mag |-> mag]

\* the integer a SoxInt holds
WideOf(v) ==
    IF "wide" \in DOMAIN v THEN v.v
    ELSE Wide(v.v < 0, MagOf(IF v.v < 0 THEN 0 - v.v ELSE v.v))

\* SoxInt::from
IntOf(w) ==
    IF MagLess(w.mag, Two31)
    THEN [t |-> "int", v |-> IF w.neg THEN 0 - NatOf(w.mag) ELSE NatOf(w.mag)]
    ELSE [t |-> "int", v |-> w, wide |-> TRUE]

WideNeg(x) == Wide(~x.neg, x.mag)

WideAdd(x, y) ==
    IF x.neg = y.neg THEN Wide(x.neg, MagAdd(x.mag, y.mag))
    ELSE IF MagLess(x.mag, y.mag) THEN Wide(y.neg, MagSub(y.mag, x.mag))
    ELSE Wide(x.neg, MagSub(x.mag, y.mag))

WideSub(x, y) == WideAdd(x, WideNeg(y))

WideMul(x, y) == Wide(x.neg # y.neg, MagMul(x.mag, y.mag))

\* the remainder of the truncating division: it has the sign of the dividend
WideRem(x, y) == Wide(x.neg, MagMod(x.mag, y.mag))

\* i64::MIN <= w <= i64::MAX
InI64(w) == IF w.neg THEN ~MagLess(Two63, w.mag) ELSE MagLess(w.mag, Two63)

\* the two's complement value of the low 64 bits of w
Wrap(w) ==
    Let(MagMod(w.mag, Two64), LAMBDA m :
    Let(IF w.neg /\ m # <<>> THEN MagSub(Two64, m) ELSE m, LAMBDA u :
    IF MagLess(u, Two63) THEN Wide(FALSE, u) ELSE Wide(TRUE, MagSub(Two64, u))))

\* the decimal digits of a magnitude
RECURSIVE LimbsText(_)
LimbsText(mag) ==
    IF Len(mag) = 0 THEN "0"
    ELSE IF Len(mag) = 1 THEN ToString(mag[1])
    ELSE LimbsText(Tail(mag)) \o (IF mag[1] < 10 THEN "0" ELSE "") \o ToString(mag[1])

\* i64::to_string
IntText(v) ==
    (IF WideOf(v).neg THEN "-" ELSE "") \o LimbsText(WideOf(v).mag)

\* Interpreter::runtime_error; errs counts the runtime errors ever raised
runtime_error(s, msg) == R([s EXCEPT !.errs = @ + 1], ErrR(msg))

\* the result of an environment operation, an Err counted as raised
FromEnv(s, r) == R(IF r.k = "err" THEN [s EXCEPT !.errs = @ + 1] ELSE s, r)

\* ghost: append an event to the log
Note(s, ev) == [s EXCEPT !.log = Append(@, ev)]

\* Representable::repr
Repr(v) ==
    CASE v.t = "int" -> IntText(v)
      [] v.t = "str" -> v.v
      [] v.t = "bool" -> IF v.v THEN "true" ELSE "false"
      [] v.t = "none" -> "None"
      [] v.t = "func" -> "<Function " \o v.v.name \o ">"
      [] OTHER -> "<object>"

\* println!
println(s, text) == [s EXCEPT !.out = Append(@, text)]

\* ghost: the frame dist_to_ns links above the active one is in the store and
\* holds a binding of the name at binding_idx
Holds(e, name, dist_to_ns, binding_idx) ==
    LET path == ClimbPath(e, e.active, dist_to_ns)
        target == Climb(e, e.active, dist_to_ns)
    IN /\ Live(e, e.active)
       /\ \A i \in 1..Len(path) : Live(e, path[i])
       /\ target # NoKey
       /\ binding_idx + 1 <= Len(e.envs[target])
       /\ e.envs[target][binding_idx + 1].name = name

\* ghost: a resolved reference reaching the environment
Referenced(s, name) ==
    Note(s, [ev |-> "ref", name |-> name.lexeme, dist |-> s.locals[name],
             holds |-> Holds(s.environment, name.lexeme,
                             s.locals[name][1], s.locals[name][2])])

\* Interpreter::lookup_variable
lookup_variable(s, name) ==
    IF name \in DOMAIN s.locals
    THEN FromEnv(Referenced(s, name),
                 get(s.environment, name.lexeme, s.locals[name][1], s.locals[name][2]))
    ELSE FromEnv(s, get_from_global_scope(s.environment, name.lexeme))

\* Environment::assign_in_global: updates the matching entry of the global
\* frame or fails with NameError
assign_in_global(e, key, value) ==
    LET i == FirstIndex(e.envs[e.global], key) IN
    IF i # 0
    THEN [e |-> [e EXCEPT !.envs[e.global][i].value = value], r |-> Ok(NoneV)]
    ELSE [e |-> e, r |-> ErrR(NameError(key, ""))]

\* SoxFunction::bind for a TypeInstance: the interpreter afterwards and the
\* bound method
bind(s, func, instance) ==
    LET env_ref == NextKey(s.environment)
        e1 == new_local_env_at(s.environment, func.environment_ref)
        e2 == define_at(e1, "this", instance, env_ref)
    IN IF instance.t = "inst"
       THEN R([s EXCEPT !.environment = e2],
              Ok(FuncV([func EXCEPT !.environment_ref = env_ref])))
       ELSE runtime_error(s, "Could not bind method to instance")

\* SoxInstance::set
set(s, inst, name, value) ==
    [s EXCEPT !.heap[inst.v].fields = (name.lexeme :> value) @@ @]

\* FromArgs for a T: TryFromSoxObject: the first element of the argument
\* vector, which stays in the vector
from_args(args) == args[1]

\* the `equals` methods of the built-in classes: SoxInt::equals,
\* SoxFloat::equals, SoxBool::equals, SoxString::equals, SoxNone::equals and
\* SoxFunction::equals
equals(zelf, rhs) ==
    IF zelf.t = "none" THEN rhs.t = "none"
    ELSE IF zelf.t = "int" THEN rhs.t = "int" /\ WideOf(rhs) = WideOf(zelf)
    ELSE rhs.t = zelf.t /\ rhs.v = zelf.v

\* NativeFn::call of a method `Fn(&S, T)`: the receiver and the parameter are
\* both bound from the argument vector by `args.bind::<(S, T)>`
static_func_equals(args) ==
    Let(from_args(args), LAMBDA zelf :
    Let(from_args(args), LAMBDA v1 : BoolV(equals(zelf, v1))))

\* the lookup of "equals" in the class of the left operand and its call, as
\* the arms for == and != do it
call_equals(l, r) ==
    IF "equals" \in METHOD_DEFS(l.t) THEN static_func_equals(<<l, r>>)
    ELSE BoolV(FALSE)

\* `v1.value + v2.value` and the like on i64: where the result w is out of
\* range the operation panics in a build that checks for overflow and wraps
\* around in one that does not
Overflowing(s, w) ==
    IF InI64(w) THEN R(s, Ok(IntOf(w)))
    ELSE IF s.overflow_checks THEN R(s, Panic)
    ELSE R(s, Ok(IntOf(Wrap(w))))

\* `v1.value % v2.value` on i64: panics for a zero divisor and for
\* i64::MIN % -1 in every build
I64Rem(s, x, y) ==
    IF y.mag = <<>> THEN R(s, Panic)
    ELSE IF x = Wide(TRUE, Two63) /\ y = Wide(TRUE, <<1>>) THEN R(s, Panic)
    ELSE R(s, Ok(IntOf(WideRem(x, y))))

\* the message of the arm of an arithmetic operator for operands it rejects
Rejected(operator) ==
    CASE operator = "Plus" -> "Operands must be two numbers or two strings."
      [] operator = "Minus" -> "Operands must be two numbers or two strings"
      [] operator = "Rem" -> "Arguments to the remainder operator must both be numbers"
      [] operator = "Star" ->
            "Arguments to the multiplication operator must both be numbers"
      [] OTHER -> "Arguments to the division operator must both be numbers"

\* the arms of visit_binary_expr for - % + * /; an f64 result is written as
\* the operation that yields it
Arithmetic(s, operator, l, r) ==
    IF l.t = "int" /\ r.t = "int"
    THEN CASE operator = "Plus" -> Overflowing(s, WideAdd(WideOf(l), WideOf(r)))
           [] operator = "Minus" -> Overflowing(s, WideSub(WideOf(l), WideOf(r)))
           [] operator = "Star" -> Overflowing(s, WideMul(WideOf(l), WideOf(r)))
           [] operator = "Rem" -> I64Rem(s, WideOf(l), WideOf(r))
           [] OTHER -> R(s, Ok(FloatV([operator |-> operator, left |-> l,
                                       right |-> r])))
    ELSE IF l.t = "float" \/ r.t = "float"
    THEN IF l.t \in {"int", "float"} /\ r.t \in {"int", "float"}
         THEN R(s, Ok(FloatV([operator |-> operator, left |-> l, right |-> r])))
         ELSE runtime_error(s, Rejected(operator))
    ELSE IF operator = "Plus" /\ l.t = "str" /\ r.t = "str"
    THEN R(s, Ok(StrV(l.v \o r.v)))
    ELSE runtime_error(s, Rejected(operator))

\* the arms of visit_binary_expr for the arithmetic operators, == and !=
BinaryOp(s, operator, l, r) ==
    CASE operator \in {"Plus", "Minus", "Star", "Slash", "Rem"} ->
            Arithmetic(s, operator, l, r)
      [] operator = "EqualEqual" -> R(s, Ok(call_equals(l, r)))
      [] operator = "BangEqual" ->
            R(s, Ok(BoolV(~try_into_rust_bool(call_equals(l, r)))))
      [] OTHER -> runtime_error(s, "Unsupported token type")

\* StaticType::NAME of the value's class, the class name for an instance
TypeName(s, v) ==
    CASE v.t = "int" -> "int"
      [] v.t = "float" -> "float"
      [] v.t = "str" -> "string"
      [] v.t = "bool" -> "boolean"
      [] v.t = "none" -> "none"
      [] v.t = "func" -> "function"
      [] v.t = "type" -> "type"
      [] OTHER -> s.heap[v.v].typ.name

\* the method table visit_class_stmt builds: a later method of the same name
\* replaces an earlier one
MethodsMap(methods, environment_ref) ==
    [n \in {methods[j].name.lexeme : j \in DOMAIN methods} |->
        LET j == CHOOSE j \in DOMAIN methods :
                    /\ methods[j].name.lexeme = n
                    /\ \A i \in DOMAIN methods : methods[i].name.lexeme = n => i <= j
        IN SoxFunction(n, methods[j], environment_ref,
                       AsI8(Len(methods[j].params)), n = "init")]

RECURSIVE evaluate(_, _), execute(_, _), execute_block(_, _, _), ExecuteAll(_, _, _)
RECURSIVE EvaluateArgs(_, _, _, _), WhileLoop(_, _)
RECURSIVE SoxFunction_call(_, _, _), SoxType_call(_, _, _)

\* the `for statement in statements` loop of execute_block, from index i
ExecuteAll(s, statements, i) ==
    IF i > Len(statements) THEN R(s, Ok(NoneV))
    ELSE Let(execute(s, statements[i]), LAMBDA res :
         IF IsErr(res.r) THEN res ELSE ExecuteAll(res.s, statements, i + 1))

\* the blocks that returned since the log had `from` events
BlocksSince(log, from) ==
    Cardinality({j \in (from + 1)..Len(log) : log[j].ev = "block"})

\* an execute_block that returns a runtime error without popping its frame
execute_block_unpopped_on_error(s, statements, ns_ref) ==
    Let(IF ns_ref # NoKey
        THEN [s EXCEPT !.environment.active = ns_ref]
        ELSE [s EXCEPT !.environment = new_local_env(@)], LAMBDA s1 :
    Let(ExecuteAll(s1, statements, 1), LAMBDA b :
    IF Aborts(b.r) THEN b ELSE
    Let(IF b.r.k = "err" THEN [e |-> b.s.environment, r |-> Ok(NoneV)]
        ELSE pop(b.s.environment), LAMBDA p :
    IF IsErr(p.r) THEN R([b.s EXCEPT !.environment = p.e], Panic)
    ELSE R(Note([b.s EXCEPT !.environment = p.e],
                [ev |-> "block", entered |-> s.environment.active,
                 popped |-> b.s.environment.active, left |-> p.e.active,
                 inner |-> BlocksSince(b.s.log, Len(s.log)), r |-> b.r.k]),
           IF IsErr(b.r) THEN b.r ELSE Ok(NoneV)))))

\* Interpreter::execute_block; ns_ref is NoKey for None
execute_block(s, statements, ns_ref) ==
    Let(IF ns_ref # NoKey
        THEN [s EXCEPT !.environment.active = ns_ref]
        ELSE [s EXCEPT !.environment = new_local_env(@)], LAMBDA s1 :
    Let(ExecuteAll(s1, statements, 1), LAMBDA b :
    IF Aborts(b.r) THEN b ELSE
    Let(pop(b.s.environment), LAMBDA p :
    IF IsErr(p.r) THEN R([b.s EXCEPT !.environment = p.e], Panic)
    ELSE R(Note([b.s EXCEPT !.environment = p.e],
                [ev |-> "block", entered |-> s.environment.active,
                 popped |-> b.s.environment.active, left |-> p.e.active,
                 inner |-> BlocksSince(b.s.log, Len(s.log)), r |-> b.r.k]),
           IF IsErr(b.r) THEN b.r ELSE Ok(NoneV)))))

\* a call that lets the Return signal through
return_value_kept(ret) ==
    ret

\* a call that ignores is_initializer
initializer_value_ignored(s, fo, value) ==
    R(s, value)

\* the match of SoxFunction::call on the result of the body: Return(v) is the
\* value of the call, an Err stays an Err
return_value(ret) ==
    IF ret.k = "ret" THEN Ok(ret.v) ELSE ret

\* the is_initializer branch of SoxFunction::call: the call returns what
\* find_and_get("this") returns, else the return value
initializer_value(s, fo, value) ==
    IF fo.is_initializer THEN FromEnv(s, find_and_get(s.environment, "this"))
    ELSE R(s, value)

\* a call that leaves the callee's frame active when the body fails
SoxFunction_call_unrestored_on_error(s, fo, args) ==
    IF ~ArityMatches(Len(args), fo.arity)
    THEN Let(runtime_error(s, "Expected " \o ToString(fo.arity)
                    \o " arguments but got " \o ToString(Len(args)) \o "."), LAMBDA x :
         R(Note(x.s, [ev |-> "call", fo |-> fo, args |-> args, entered |-> FALSE,
                      bound |-> <<>>, r |-> x.r,
                      same |-> x.s.environment = s.environment,
                      at |-> s.environment.active,
                      after |-> x.s.environment.active, parent |-> NoKey]), x.r))
    ELSE IF s.fuel = 0 THEN R(s, Diverge)
    ELSE
    LET previous_env_ref == s.environment.active
        params == fo.declaration.params
        exec_ns == NextKey(s.environment)
    IN
    Let(new_local_env_at([s.environment EXCEPT !.active = fo.environment_ref],
                         fo.environment_ref), LAMBDA e1 :
    Let([e1 EXCEPT !.envs[exec_ns] =
            [j \in 1..Len(params) |-> Binding(params[j].lexeme, args[j])]], LAMBDA e2 :
    Let(execute_block([s EXCEPT !.environment = e2, !.fuel = @ - 1],
                      fo.declaration.body, exec_ns), LAMBDA ret :
    IF Aborts(ret.r) THEN ret ELSE
    Let(initializer_value(ret.s, fo, return_value(ret.r)), LAMBDA out :
    IF Aborts(out.r) THEN out
    ELSE
    LET left == IF out.r.k = "err" THEN out.s.environment.active
                ELSE previous_env_ref IN
         R(Note([out.s EXCEPT !.environment.active = left],
                [ev |-> "call", fo |-> fo, args |-> args, entered |-> TRUE,
                 bound |-> e2.envs[exec_ns], r |-> out.r, same |-> FALSE,
                 at |-> previous_env_ref, after |-> left,
                 parent |-> e2.env_link[exec_ns]]),
           out.r)))))

\* SoxFunction::call
SoxFunction_call(s, fo, args) ==
    IF ~ArityMatches(Len(args), fo.arity)
    THEN Let(runtime_error(s, "Expected " \o ToString(fo.arity)
                    \o " arguments but got " \o ToString(Len(args)) \o "."), LAMBDA x :
         R(Note(x.s, [ev |-> "call", fo |-> fo, args |-> args, entered |-> FALSE,
                      bound |-> <<>>, r |-> x.r,
                      same |-> x.s.environment = s.environment,
                      at |-> s.environment.active,
                      after |-> x.s.environment.active, parent |-> NoKey]), x.r))
    ELSE IF s.fuel = 0 THEN R(s, Diverge)
    ELSE
    LET previous_env_ref == s.environment.active
        params == fo.declaration.params
        exec_ns == NextKey(s.environment)
    IN
    Let(new_local_env_at([s.environment EXCEPT !.active = fo.environment_ref],
                         fo.environment_ref), LAMBDA e1 :
    Let([e1 EXCEPT !.envs[exec_ns] =
            [j \in 1..Len(params) |-> Binding(params[j].lexeme, args[j])]], LAMBDA e2 :
    Let(execute_block([s EXCEPT !.environment = e2, !.fuel = @ - 1],
                      fo.declaration.body, exec_ns), LAMBDA ret :
    IF Aborts(ret.r) THEN ret ELSE
    Let(initializer_value(ret.s, fo, return_value(ret.r)), LAMBDA out :
    IF Aborts(out.r) THEN out
    ELSE R(Note([out.s EXCEPT !.environment.active = previous_env_ref],
                [ev |-> "call", fo |-> fo, args |-> args, entered |-> TRUE,
                 bound |-> e2.envs[exec_ns], r |-> out.r, same |-> FALSE,
                 at |-> previous_env_ref, after |-> previous_env_ref,
                 parent |-> e2.env_link[exec_ns]]),
           out.r)))))

\* SoxType::call
SoxType_call(s, to, args) ==
    LET instance == InstV(Len(s.heap) + 1)
        s1 == [s EXCEPT !.heap = Append(@, [typ |-> to, fields |-> <<>>])]
        initializer == find_method(to, "init")
    IN
    Let(IF Len(initializer) = 0 THEN R(s1, Ok(instance))
        ELSE Let(bind(s1, initializer[1], instance), LAMBDA bound_method :
             Let(SoxFunction_call(bound_method.s, bound_method.r.v.v, args), LAMBDA c :
             IF IsErr(c.r) THEN c ELSE R(c.s, Ok(instance)))), LAMBDA out :
    IF Aborts(out.r) THEN out
    ELSE R(Note(out.s, [ev |-> "new", typ |-> to, args |-> args, r |-> out.r,
                        at |-> s.environment.active,
                        after |-> out.s.environment.active]),
           out.r))

\* SoxInstance::get
SoxInstance_get(s, inst, name) ==
    LET o == s.heap[inst.v]
        method == find_method(o.typ, name.lexeme)
    IN
    Let(IF name.lexeme \in DOMAIN o.fields THEN R(s, Ok(o.fields[name.lexeme]))
        ELSE IF Len(method) = 1 THEN bind(s, method[1], inst)
        ELSE runtime_error(s, "Undefined property - " \o name.lexeme), LAMBDA out :
    R(Note(out.s, [ev |-> "get", inst |-> inst, typ |-> o.typ,
                   field |-> name.lexeme \in DOMAIN o.fields,
                   name |-> name.lexeme, r |-> out.r]), out.r))

\* the argument loop of visit_call_expr over arguments lo..hi, left to right,
\* stopping at the first error: [s, r, args]
EvaluateArgs(s, arguments, lo, hi) ==
    IF lo > hi THEN [s |-> s, r |-> Ok(NoneV), args |-> <<>>]
    ELSE IF lo = hi
    THEN Let(evaluate(s, arguments[lo]), LAMBDA arg_val :
         [s |-> arg_val.s, r |-> arg_val.r,
          args |-> IF IsErr(arg_val.r) THEN <<>> ELSE <<arg_val.r.v>>])
    ELSE LET mid == (lo + hi) \div 2 IN
         Let(EvaluateArgs(s, arguments, lo, mid), LAMBDA a :
         IF IsErr(a.r) THEN a ELSE
         Let(EvaluateArgs(a.s, arguments, mid + 1, hi), LAMBDA b :
         [s |-> b.s, r |-> b.r, args |-> a.args \o b.args]))

visit_call_expr(s, expr) ==
    Let(evaluate(s, expr.callee), LAMBDA callee_ :
    IF IsErr(callee_.r) THEN callee_ ELSE
    Let(EvaluateArgs(callee_.s, expr.arguments, 1, Len(expr.arguments)), LAMBDA a :
    IF IsErr(a.r) THEN R(a.s, a.r)
    ELSE IF callee_.r.v.t = "func" THEN SoxFunction_call(a.s, callee_.r.v.v, a.args)
    ELSE IF callee_.r.v.t = "type" THEN SoxType_call(a.s, callee_.r.v.v, a.args)
    ELSE runtime_error(a.s, TypeName(a.s, callee_.r.v) \o " object is not callable.")))

visit_assign_expr(s, expr) ==
    Let(evaluate(s, expr.value), LAMBDA eval_val :
    IF IsErr(eval_val.r) THEN eval_val ELSE
    LET s1 == eval_val.s
        dist == s1.locals[expr.name]
    IN
    Let(IF expr.name \in DOMAIN s1.locals
        THEN assign(s1.environment, expr.name.lexeme, dist[1], dist[2], eval_val.r.v)
        ELSE assign_in_global(s1.environment, expr.name.lexeme, eval_val.r.v), LAMBDA w :
    LET s2 == IF expr.name \in DOMAIN s1.locals THEN Referenced(s1, expr.name) ELSE s1 IN
    IF IsErr(w.r) THEN FromEnv(s2, w.r)
    ELSE R([s2 EXCEPT !.environment = w.e], eval_val.r)))

\* visit_binary_expr with the operands evaluated in the order they are written
visit_binary_expr_left_first(s, expr) ==
    Let(evaluate(s, expr.left), LAMBDA left_val :
    IF IsErr(left_val.r) THEN left_val ELSE
    Let(evaluate(left_val.s, expr.right), LAMBDA right_val :
    IF IsErr(right_val.r) THEN right_val
    ELSE BinaryOp(right_val.s, expr.operator, left_val.r.v, right_val.r.v)))

visit_binary_expr(s, expr) ==
    Let(evaluate(s, expr.right), LAMBDA right_val :
    IF IsErr(right_val.r) THEN right_val ELSE
    Let(evaluate(right_val.s, expr.left), LAMBDA left_val :
    IF IsErr(left_val.r) THEN left_val
    ELSE BinaryOp(left_val.s, expr.operator, left_val.r.v, right_val.r.v)))

visit_unary_expr(s, expr) ==
    Let(evaluate(s, expr.right), LAMBDA right :
    IF IsErr(right.r) THEN right
    ELSE IF expr.operator = "Minus"
         THEN IF right.r.v.t = "int"
              THEN Overflowing(right.s, WideNeg(WideOf(right.r.v)))
              ELSE runtime_error(right.s,
                     "The unary operator (-) can only be applied to a numeric value.")
    ELSE IF expr.operator = "Bang"
         THEN R(right.s, Ok(BoolV(~try_into_rust_bool(right.r.v))))
    ELSE runtime_error(right.s, "Unknown unary operator."))

visit_logical_expr(s, expr) ==
    Let(evaluate(s, expr.left), LAMBDA left :
    IF IsErr(left.r) THEN left
    ELSE IF expr.operator = "Or" /\ try_into_rust_bool(left.r.v) THEN left
    ELSE IF expr.operator # "Or" /\ ~try_into_rust_bool(left.r.v) THEN left
    ELSE evaluate(left.s, expr.right))

visit_get_expr(s, expr) ==
    Let(evaluate(s, expr.object), LAMBDA object :
    IF IsErr(object.r) THEN object
    ELSE IF object.r.v.t = "inst" THEN SoxInstance_get(object.s, object.r.v, expr.name)
    ELSE runtime_error(object.s, "Only class instances have attributes"))

visit_set_expr(s, expr) ==
    Let(evaluate(s, expr.object), LAMBDA object :
    IF IsErr(object.r) THEN object
    ELSE IF object.r.v.t # "inst"
         THEN runtime_error(object.s, "Only instances have fields")
    ELSE
    Let(evaluate(object.s, expr.value), LAMBDA value :
    IF IsErr(value.r) THEN value
    ELSE R(set(value.s, object.r.v, expr.name, value.r.v), value.r)))

\* Token::new draws the id of this_token from TOKEN_ATOMIC
visit_super_expr(s, expr) ==
    LET this_token == Token("This", "this", 0, s.token_atomic)
        s1 == [s EXCEPT !.token_atomic = @ + 1]
        d == s1.locals[expr.keyword]
        d2 == s1.locals[this_token]
        super_type == get(s1.environment, "super", d[1], d[2])
        instance == get(s1.environment, "this", d2[1], d2[2])
        method == find_method(super_type.v.v, expr.method.lexeme)
    IN
    Let(IF expr.keyword \notin DOMAIN s.locals THEN R(s, Panic)
        ELSE IF this_token \notin DOMAIN s1.locals THEN R(s1, Panic)
        ELSE IF IsErr(super_type) THEN FromEnv(s1, super_type)
        ELSE IF IsErr(instance) THEN FromEnv(s1, instance)
        ELSE IF super_type.v.t # "type"
             THEN runtime_error(s1, "Unable to resolve instance - this")
        ELSE IF Len(method) = 1 THEN bind(s1, method[1], instance.v)
        ELSE runtime_error(s1, "Undefined property " \o expr.method.lexeme), LAMBDA out :
    R(Note(out.s, [ev |-> "super", name |-> expr.method.lexeme, r |-> out.r]), out.r))

evaluate(s, expr) ==
    CASE expr.k = "Literal" -> R(s, Ok(expr.value))
      [] expr.k = "Grouping" -> evaluate(s, expr.expr)
      [] expr.k = "Variable" -> lookup_variable(s, expr.name)
      [] expr.k = "This" -> lookup_variable(s, expr.keyword)
      [] expr.k = "Assign" -> visit_assign_expr(s, expr)
      [] expr.k = "Binary" -> visit_binary_expr(s, expr)
      [] expr.k = "Unary" -> visit_unary_expr(s, expr)
      [] expr.k = "Logical" -> visit_logical_expr(s, expr)
      [] expr.k = "Call" -> visit_call_expr(s, expr)
      [] expr.k = "Get" -> visit_get_expr(s, expr)
      [] expr.k = "Set" -> visit_set_expr(s, expr)
      [] expr.k = "Super" -> visit_super_expr(s, expr)

visit_print_stmt(s, stmt) ==
    Let(evaluate(s, stmt.expr), LAMBDA value :
    IF IsErr(value.r) THEN value
    ELSE R(println(value.s, Repr(value.r.v)), Ok(NoneV)))

\* Environment::define unwraps the active namespace
visit_decl_stmt(s, stmt) ==
    Let(IF stmt.initializer.k # "absent" THEN evaluate(s, stmt.initializer)
        ELSE R(s, Ok(NoneV)), LAMBDA value :
    IF IsErr(value.r) THEN value
    ELSE IF ~Live(value.s.environment, value.s.environment.active)
         THEN R(value.s, Panic)
    ELSE R([value.s EXCEPT !.environment = define(@, stmt.name.lexeme, value.r.v)],
           Ok(NoneV)))

visit_block_stmt(s, stmt) ==
    execute_block(s, stmt.statements, NoKey)

visit_if_stmt(s, stmt) ==
    Let(evaluate(s, stmt.condition), LAMBDA cond_val :
    IF IsErr(cond_val.r) THEN cond_val ELSE
    Let(IF try_into_rust_bool(cond_val.r.v)
        THEN execute(cond_val.s, stmt.then_branch)
        ELSE IF stmt.else_branch.k # "absent"
             THEN execute(cond_val.s, stmt.else_branch)
             ELSE R(cond_val.s, Ok(NoneV)), LAMBDA branch :
    IF IsErr(branch.r) THEN branch
    ELSE R(branch.s, Ok(NoneV))))

\* the loop of visit_while_stmt; an iteration uses one unit of fuel
WhileLoop(s, stmt) ==
    Let(evaluate(s, stmt.condition), LAMBDA cond :
    IF IsErr(cond.r) THEN cond
    ELSE IF ~try_into_rust_bool(cond.r.v) THEN R(cond.s, Ok(NoneV))
    ELSE IF cond.s.fuel = 0 THEN R(cond.s, Diverge)
    ELSE
    Let(execute([cond.s EXCEPT !.fuel = @ - 1], stmt.body), LAMBDA body :
    IF IsErr(body.r) THEN body
    ELSE WhileLoop(body.s, stmt)))

visit_while_stmt(s, stmt) ==
    WhileLoop(s, stmt)

visit_function_stmt(s, stmt) ==
    LET fo == SoxFunction(stmt.name.lexeme, stmt, s.environment.active,
                          AsI8(Len(stmt.params)), FALSE)
    IN IF ~Live(s.environment, s.environment.active) THEN R(s, Panic)
       ELSE R([s EXCEPT !.environment = define(@, stmt.name.lexeme, FuncV(fo))],
              Ok(NoneV))

visit_return_stmt(s, stmt) ==
    Let(IF stmt.value.k # "absent" THEN evaluate(s, stmt.value)
        ELSE R(s, Ok(NoneV)), LAMBDA value :
    IF IsErr(value.r) THEN value
    ELSE R(value.s, Return(value.r.v)))

visit_class_stmt(s, stmt) ==
    LET has_sc == stmt.superclass.k # "absent" IN
    Let(IF has_sc THEN evaluate(s, stmt.superclass) ELSE R(s, Ok(NoneV)), LAMBDA scr :
    IF has_sc /\ Aborts(scr.r) THEN scr
    ELSE IF has_sc /\ ~(scr.r.k = "ok" /\ scr.r.v.t = "type")
         THEN runtime_error(scr.s, "Superclass must be a class.")
    ELSE IF ~Live(scr.s.environment, scr.s.environment.active) THEN R(scr.s, Panic)
    ELSE
    LET sc == IF has_sc THEN <<scr.r.v.v>> ELSE <<>> IN
    Let(define(scr.s.environment, stmt.name.lexeme, NoneV), LAMBDA e1 :
    Let(IF has_sc THEN define(new_local_env(e1), "super", TypeV(sc[1])) ELSE e1, LAMBDA e2 :
    LET prev_env_ref == e1.active
        class == SoxType(stmt.name.lexeme, sc, MethodsMap(stmt.methods, e2.active))
    IN
    Let(find_and_assign([e2 EXCEPT !.active = prev_env_ref],
                        stmt.name.lexeme, TypeV(class)), LAMBDA w :
    IF IsErr(w.r) THEN R(scr.s, Panic)
    ELSE R([scr.s EXCEPT !.environment = w.e], Ok(NoneV))))))

execute(s, stmt) ==
    CASE stmt.k = "Expression" -> evaluate(s, stmt.expr)
      [] stmt.k = "Print" -> visit_print_stmt(s, stmt)
      [] stmt.k = "Var" -> visit_decl_stmt(s, stmt)
      [] stmt.k = "Block" -> visit_block_stmt(s, stmt)
      [] stmt.k = "If" -> visit_if_stmt(s, stmt)
      [] stmt.k = "While" -> visit_while_stmt(s, stmt)
      [] stmt.k = "Function" -> visit_function_stmt(s, stmt)
      [] stmt.k = "Return" -> visit_return_stmt(s, stmt)
      [] stmt.k = "Class" -> visit_class_stmt(s, stmt)

-----------------------------------------------------------------------------
(* The resolver (resolver.rs).  An operator takes the resolver rs and        *)
(* returns it afterwards; rs.err is "" for Ok(()) and the message of the     *)
(* ResolverError otherwise.  A scope entry is the pair (Token, bool).        *)

\* Resolver::new; tokens is the value of TOKEN_ATOMIC after lexing
NewResolver(tokens) ==
    [scopes |-> <<>>, current_function |-> "None", current_class |-> "None",
     resolved |-> <<>>, token_atomic |-> tokens, err |-> "", seen |-> <<>>]

SyntaxError(rs, msg) == [rs EXCEPT !.err = msg]

begin_scope(rs) == [rs EXCEPT !.scopes = Append(@, <<>>)]

end_scope(rs) == [rs EXCEPT !.scopes = SubSeq(@, 1, Len(@) - 1)]

\* ghost: the name handed to resolve_local and the open scopes at that point
Seen(rs, name) == [rs EXCEPT !.seen = Append(@, [name |-> name, scopes |-> rs.scopes])]

\* a resolve_local that searches the scopes from the outermost inwards
resolve_local_outermost_first(rs, name) ==
    LET n == Len(rs.scopes)
        hits(d) == {idx \in 1..Len(rs.scopes[n - d]) :
                        rs.scopes[n - d][idx][1].lexeme = name.lexeme}
        ds == {d \in 0..(n - 1) : hits(d) # {}}
        dist_index == CHOOSE d \in ds : \A d2 \in ds : d >= d2
        idx == CHOOSE i \in hits(dist_index) : \A i2 \in hits(dist_index) : i2 <= i
    IN IF ds = {} THEN Seen(rs, name)
       ELSE [Seen(rs, name) EXCEPT !.resolved = (name :> <<dist_index, idx - 1>>) @@ @]

\* Resolver::resolve_local: the innermost scope with an entry of that lexeme,
\* and in it the last such entry
resolve_local(rs, name) ==
    LET n == Len(rs.scopes)
        hits(d) == {idx \in 1..Len(rs.scopes[n - d]) :
                        rs.scopes[n - d][idx][1].lexeme = name.lexeme}
        ds == {d \in 0..(n - 1) : hits(d) # {}}
        dist_index == CHOOSE d \in ds : \A d2 \in ds : d <= d2
        idx == CHOOSE i \in hits(dist_index) : \A i2 \in hits(dist_index) : i2 <= i
    IN IF ds = {} THEN Seen(rs, name)
       ELSE [Seen(rs, name) EXCEPT !.resolved = (name :> <<dist_index, idx - 1>>) @@ @]

\* Resolver::declare
declare(rs, name) ==
    IF rs.scopes = <<>> THEN rs
    ELSE [rs EXCEPT !.scopes[Len(rs.scopes)] = Append(@, <<name, FALSE>>)]

\* Resolver::define (named so beside Environment::define)
resolver_define(rs, name) ==
    LET scope == rs.scopes[Len(rs.scopes)]
        hits == {i \in 1..Len(scope) :
                    scope[i][1].lexeme = name.lexeme /\ scope[i][1].line = name.line}
        first == CHOOSE i \in hits : \A i2 \in hits : i <= i2
    IN IF rs.scopes = <<>> THEN rs
       ELSE IF hits = {} THEN rs
       ELSE [rs EXCEPT !.scopes[Len(rs.scopes)][first] = <<scope[first][1], TRUE>>]

RECURSIVE resolve_stmt(_, _), resolve_expr(_, _), resolve(_, _, _)
RECURSIVE ResolveArgs(_, _, _, _), ResolveMethods(_, _, _)

\* Resolver::resolve, from index i
resolve(rs, statements, i) ==
    IF i > Len(statements) THEN rs
    ELSE Let(resolve_stmt(rs, statements[i]), LAMBDA r1 :
         IF r1.err # "" THEN r1 ELSE resolve(r1, statements, i + 1))

\* the parameter loop of resolve_function, run on the scope begin_scope has
\* just pushed: declare appends the parameter, define marks the first entry
\* of its lexeme and line, so a repeated parameter stays unmarked
DeclareParams(rs, params) ==
    [rs EXCEPT !.scopes[Len(rs.scopes)] =
        [j \in 1..Len(params) |->
            <<params[j], ~\E k \in 1..(j - 1) : /\ params[k].lexeme = params[j].lexeme
                                                /\ params[k].line = params[j].line>>]]

\* Resolver::resolve_function
resolve_function(rs, stmt, func_type) ==
    LET enclosing_function == rs.current_function
        r1 == DeclareParams(begin_scope([rs EXCEPT !.current_function = func_type]),
                            stmt.params)
    IN Let(resolve(r1, stmt.body, 1), LAMBDA r2 :
       IF r2.err # "" THEN r2
       ELSE [end_scope(r2) EXCEPT !.current_function = enclosing_function])

\* the argument loop of the resolver's visit_call_expr over arguments lo..hi,
\* left to right, stopping at the first error
ResolveArgs(rs, arguments, lo, hi) ==
    IF lo > hi THEN rs
    ELSE IF lo = hi THEN resolve_expr(rs, arguments[lo])
    ELSE LET mid == (lo + hi) \div 2 IN
         Let(ResolveArgs(rs, arguments, lo, mid), LAMBDA r1 :
         IF r1.err # "" THEN r1 ELSE ResolveArgs(r1, arguments, mid + 1, hi))

\* the method loop of the resolver's visit_class_stmt, from index i
ResolveMethods(rs, methods, i) ==
    IF i > Len(methods) THEN rs
    ELSE LET dec == IF methods[i].name.lexeme = "init" THEN "Initializer" ELSE "Method"
         IN Let(resolve_function(rs, methods[i], dec), LAMBDA r1 :
            IF r1.err # "" THEN r1 ELSE ResolveMethods(r1, methods, i + 1))

\* the resolver's visit_variable_expr
resolver_visit_variable_expr(rs, expr) ==
    LET scope == rs.scopes[Len(rs.scopes)]
        hits == {i \in 1..Len(scope) : scope[i][1].lexeme = expr.name.lexeme}
        first == CHOOSE i \in hits : \A i2 \in hits : i <= i2
    IN Let(resolve_local(rs, expr.name), LAMBDA r1 :
       IF rs.scopes # <<>> /\ hits # {} /\ scope[first][2] = FALSE
       THEN SyntaxError(r1, "Can't read local variable[\"" \o expr.name.lexeme
                            \o "\"] in its own initializer")
       ELSE r1)

\* the resolver's visit_return_stmt
resolver_visit_return_stmt(rs, stmt) ==
    IF rs.current_function = "None"
    THEN SyntaxError(rs, "Return not allowed at top-level code.")
    ELSE IF stmt.value.k = "absent" THEN rs
    ELSE IF rs.current_function = "Initializer"
         THEN SyntaxError(rs, "Cannot return value from initializer.")
    ELSE resolve_expr(rs, stmt.value)

\* Token::new in the resolver: the token and the resolver afterwards
NewToken(rs, token_type, lexeme) ==
    [rs |-> [rs EXCEPT !.token_atomic = @ + 1],
     token |-> Token(token_type, lexeme, 0, rs.token_atomic)]

\* `scopes.last_mut().unwrap().push((token, true))`
PushDefined(rs, token) ==
    [rs EXCEPT !.scopes[Len(rs.scopes)] = Append(@, <<token, TRUE>>)]

\* the resolver's visit_class_stmt
\* a resolver that keeps the class context of a class that has ended
keep_inner_class(rs, enclosing_class) == rs

\* `self.current_class = enclosing_class;` at the end of visit_class_stmt
restore_enclosing_class(rs, enclosing_class) ==
    [rs EXCEPT !.current_class = enclosing_class]

resolver_visit_class_stmt(rs, stmt) ==
    LET enclosing_class == rs.current_class
        has_sc == stmt.superclass.k # "absent"
    IN
    Let(resolver_define(declare([rs EXCEPT !.current_class = "Class"], stmt.name),
                        stmt.name), LAMBDA r1 :
    IF has_sc /\ stmt.superclass.k = "Variable"
           /\ stmt.superclass.name.lexeme = stmt.name.lexeme
    THEN SyntaxError([r1 EXCEPT !.current_class = "SubClass"],
                     "Error at '" \o stmt.name.lexeme
                     \o "': A class cannot inherit from itself.")
    ELSE
    Let(IF has_sc
        THEN resolve_expr([r1 EXCEPT !.current_class = "SubClass"], stmt.superclass)
        ELSE r1, LAMBDA r2 :
    IF r2.err # "" THEN r2 ELSE
    Let(NewToken(begin_scope(r2), "Super", "super"), LAMBDA super_token :
    Let(IF has_sc THEN PushDefined(super_token.rs, super_token.token) ELSE r1, LAMBDA r3 :
    Let(NewToken(begin_scope(r3), "This", "this"), LAMBDA this_token :
    Let(ResolveMethods(PushDefined(this_token.rs, this_token.token), stmt.methods, 1),
        LAMBDA r5 :
    IF r5.err # "" THEN r5 ELSE
    Let(restore_enclosing_class(end_scope(r5), enclosing_class), LAMBDA r6 :
    IF has_sc THEN end_scope(r6) ELSE r6)))))))

resolve_stmt(rs, stmt) ==
    CASE stmt.k \in {"Expression", "Print"} -> resolve_expr(rs, stmt.expr)
      [] stmt.k = "Var" ->
            Let(IF stmt.initializer.k # "absent"
                THEN resolve_expr(declare(rs, stmt.name), stmt.initializer)
                ELSE declare(rs, stmt.name), LAMBDA r2 :
            IF r2.err # "" THEN r2 ELSE resolver_define(r2, stmt.name))
      [] stmt.k = "Block" ->
            Let(resolve(begin_scope(rs), stmt.statements, 1), LAMBDA r1 :
            IF r1.err # "" THEN r1 ELSE end_scope(r1))
      [] stmt.k = "If" ->
            Let(resolve_expr(rs, stmt.condition), LAMBDA r1 :
            IF r1.err # "" THEN r1 ELSE
            Let(resolve_stmt(r1, stmt.then_branch), LAMBDA r2 :
            IF r2.err # "" THEN r2
            ELSE IF stmt.else_branch.k # "absent"
                 THEN resolve_stmt(r2, stmt.else_branch)
            ELSE r2))
      [] stmt.k = "While" ->
            Let(resolve_expr(rs, stmt.condition), LAMBDA r1 :
            IF r1.err # "" THEN r1 ELSE resolve_stmt(r1, stmt.body))
      [] stmt.k = "Function" ->
            resolve_function(resolver_define(declare(rs, stmt.name), stmt.name),
                             stmt, "Function")
      [] stmt.k = "Return" -> resolver_visit_return_stmt(rs, stmt)
      [] stmt.k = "Class" -> resolver_visit_class_stmt(rs, stmt)

resolve_expr(rs, expr) ==
    CASE expr.k = "Literal" -> rs
      [] expr.k = "Variable" -> resolver_visit_variable_expr(rs, expr)
      [] expr.k = "Assign" ->
            Let(resolve_expr(rs, expr.value), LAMBDA r1 :
            IF r1.err # "" THEN r1 ELSE resolve_local(r1, expr.name))
      [] expr.k \in {"Binary", "Logical"} ->
            Let(resolve_expr(rs, expr.left), LAMBDA r1 :
            IF r1.err # "" THEN r1 ELSE resolve_expr(r1, expr.right))
      [] expr.k = "Grouping" -> resolve_expr(rs, expr.expr)
      [] expr.k = "Unary" -> resolve_expr(rs, expr.right)
      [] expr.k = "Call" ->
            Let(resolve_expr(rs, expr.callee), LAMBDA r1 :
            IF r1.err # "" THEN r1
            ELSE ResolveArgs(r1, expr.arguments, 1, Len(expr.arguments)))
      [] expr.k = "Get" -> resolve_expr(rs, expr.object)
      [] expr.k = "Set" ->
            Let(resolve_expr(rs, expr.value), LAMBDA r1 :
            IF r1.err # "" THEN r1 ELSE resolve_expr(r1, expr.object))
      [] expr.k = "This" ->
            IF rs.current_class = "None"
            THEN SyntaxError(rs, "Can't use 'this' outside of a class")
            ELSE resolve_local(rs, expr.keyword)
      [] expr.k = "Super" ->
            IF rs.current_class = "None"
            THEN SyntaxError(rs, "Can't use 'super' outside of a class")
            ELSE IF rs.current_class # "SubClass"
                 THEN SyntaxError(rs, "Can't use 'super' in a class with no superclass")
            ELSE resolve_local(rs, expr.keyword)

-----------------------------------------------------------------------------
(* The programs.  Each is the parser's output for the text in its comment,   *)
(* instantiated with the input i = [n, m, x]; tokens is the number of tokens *)
(* the lexer made, the value of TOKEN_ATOMIC when the resolver starts.       *)

V(lexeme, id) == Variable(Ident(lexeme, id))
IntLit(i) == Literal(IntV(i))
StrLit(str) == Literal(StrV(str))
Kw(token_type, lexeme, id) == Token(token_type, lexeme, 1, id)
Ret(id, value) == ReturnStmt(Kw("Return", "return", id), value)

\* fn make() { let i = 0; fn tick() { i = i + 1; return i; } return tick; }
\* let t = make(); print t(); print t(); print t();
\*   n = 1: make ends with `return tick();` and the program is `print make();`
\*   n = 2: the body of tick is `return 7;`
ClosureProgram(i) ==
    LET tick_body == IF i.n = 2 THEN <<Ret(6, IntLit(7))>>
                     ELSE <<Expression(Assign(Ident("i", 4),
                                              Binary(V("i", 5), "Plus", IntLit(1)))),
                            Ret(6, V("i", 7))>>
        returned == IF i.n = 1 THEN Call(V("tick", 9), <<>>) ELSE V("tick", 9)
        make == Function(Ident("make", 1), <<>>,
                         <<Var(Ident("i", 2), IntLit(0)),
                           Function(Ident("tick", 3), <<>>, tick_body),
                           Ret(8, returned)>>)
    IN [tokens |-> 20,
        stmts |-> IF i.n = 1 THEN <<make, PrintStmt(Call(V("make", 11), <<>>))>>
                  ELSE <<make, Var(Ident("t", 10), Call(V("make", 11), <<>>)),
                         PrintStmt(Call(V("t", 12), <<>>)),
                         PrintStmt(Call(V("t", 13), <<>>)),
                         PrintStmt(Call(V("t", 14), <<>>))>>]

\* a failing statement bad, by m: `print undefined_name;`, `print 1 + "a";`, `1();`
\* placed, by n: at top level; in fn f() { bad } f(); in class A { m() { bad } } A().m();
\* in class A { init() { bad } } let a = A(); in a block { bad }; then `print 1;`
ErrorProgram(i) ==
    LET bad == CASE i.m = 0 -> PrintStmt(V("undefined_name", 1))
                 [] i.m = 1 -> PrintStmt(Binary(IntLit(1), "Plus", StrLit("a")))
                 [] OTHER -> Expression(Call(IntLit(1), <<>>))
        after == PrintStmt(IntLit(1))
    IN [tokens |-> 10,
        stmts |->
          CASE i.n = 0 -> <<bad, after>>
            [] i.n = 1 -> <<Function(Ident("f", 2), <<>>, <<bad>>),
                            Expression(Call(V("f", 3), <<>>)), after>>
            [] i.n = 2 -> <<Class(Ident("A", 4), NoExpr,
                                  <<Function(Ident("m", 6), <<>>, <<bad>>)>>),
                            Expression(Call(Get(Call(V("A", 5), <<>>), Ident("m", 7)),
                                            <<>>)),
                            after>>
            [] i.n = 3 -> <<Class(Ident("A", 4), NoExpr,
                                  <<Function(Ident("init", 6), <<>>, <<bad>>)>>),
                            Var(Ident("a", 7), Call(V("A", 5), <<>>)), after>>
            [] OTHER -> <<Block(<<bad>>), after>>]

\* class A { m() { return "A"; } } class B < A { m() { return "B"; } }
\* class C < B { m() { return "C"; } } let o = X(); print o.m();
\*   bit 0, 1, 2 of n: whether A, B, C declares m; m = 1, 2, 3: X is A, B, C
MethodsProgram(i) ==
    LET meth(cname, id) == Function(Ident("m", id), <<>>, <<Ret(id + 1, StrLit(cname))>>)
        ms(bit, cname, id) == IF (i.n \div bit) % 2 = 1 THEN <<meth(cname, id)>> ELSE <<>>
        X == CASE i.m = 1 -> "A" [] i.m = 2 -> "B" [] OTHER -> "C"
    IN [tokens |-> 20,
        stmts |-> <<Class(Ident("A", 1), NoExpr, ms(1, "A", 2)),
                    Class(Ident("B", 4), V("A", 5), ms(2, "B", 6)),
                    Class(Ident("C", 8), V("B", 9), ms(4, "C", 10)),
                    Var(Ident("o", 12), Call(V(X, 13), <<>>)),
                    PrintStmt(Call(Get(V("o", 14), Ident("m", 15)), <<>>))>>]

\* class A { hi() { return "A"; } }
\* class B < A { hi() { return super.hi() + "B"; } } print B().hi();
\*   n = 1: the method of A is named ho
SuperProgram(i) ==
    LET a_method == IF i.n = 1 THEN "ho" ELSE "hi" IN
    [tokens |-> 20,
     stmts |-> <<Class(Ident("A", 1), NoExpr,
                       <<Function(Ident(a_method, 2), <<>>, <<Ret(3, StrLit("A"))>>)>>),
                 Class(Ident("B", 4), V("A", 5),
                       <<Function(Ident("hi", 6), <<>>,
                           <<Ret(7, Binary(Call(Super(Kw("Super", "super", 8),
                                                      Ident("hi", 9)), <<>>),
                                           "Plus", StrLit("B")))>>)>>),
                 PrintStmt(Call(Get(Call(V("B", 10), <<>>), Ident("hi", 11)), <<>>))>>]

\* class P { init() { body } } let a = P(); [let b = a.init();] print 1;
\*   body, by n: empty; `return;`; `this.v = 1;`; `this.v = 1; return;`
\*   m = 1: with the second, explicit call of init
InitProgram(i) ==
    LET set_v == Expression(Set(This(Kw("This", "this", 3)), Ident("v", 4), IntLit(1)))
        body == CASE i.n = 0 -> <<>>
                  [] i.n = 1 -> <<Ret(5, NoExpr)>>
                  [] i.n = 2 -> <<set_v>>
                  [] OTHER -> <<set_v, Ret(5, NoExpr)>>
        cls == Class(Ident("P", 1), NoExpr, <<Function(Ident("init", 2), <<>>, body)>>)
        first == Var(Ident("a", 6), Call(V("P", 7), <<>>))
        second == Var(Ident("b", 8), Call(Get(V("a", 9), Ident("init", 10)), <<>>))
    IN [tokens |-> 20,
        stmts |-> IF i.m = 1 THEN <<cls, first, second, PrintStmt(IntLit(1))>>
                  ELSE <<cls, first, PrintStmt(IntLit(1))>>]

\* the parameters p1 .. pn, with token ids from base + 1
Params(n, base) ==
    [j \in 1..n |-> Ident("p" \o ToString(j), base + j)]

\* the arguments 1, ..., m
Args(m) ==
    [j \in 1..m |-> IntLit(j)]

\* class K { init(p1, ..., pn) { } } let k = K(1, ..., m); print 1;
\*   n = -1: K declares no init but a method other()
ClassCallProgram(i) ==
    LET method == IF i.n = -1 THEN Function(Ident("other", 2), <<>>, <<>>)
                  ELSE Function(Ident("init", 2), Params(i.n, 10), <<>>)
    IN [tokens |-> 20,
        stmts |-> <<Class(Ident("K", 1), NoExpr, <<method>>),
                    Var(Ident("k", 3), Call(V("K", 4), Args(i.m))),
                    PrintStmt(IntLit(1))>>]

\* fn f(p1, ..., pn) { return pn; } print f(1, ..., m);
\*   n = 0: the body is `return 0;`
ArityProgram(i) ==
    LET value == IF i.n = 0 THEN IntLit(0) ELSE V("p" \o ToString(i.n), i.n + 3)
    IN [tokens |-> i.n + 10,
        stmts |-> <<Function(Ident("f", i.n + 1), Params(i.n, 0),
                             <<Ret(i.n + 2, value)>>),
                    PrintStmt(Call(V("f", i.n + 4), Args(i.m)))>>]

\* programs with `return`, by n:
\*   0: print 1; return 1;                       1: { return; }
\*   2: fn f() { while (true) { return 1; } } print f();
\*   3: class A { m() { if (true) { return 2; } return 3; } } print A().m();
\*   4: fn f() { { { return 4; } } print 0; } print f();
\*   5: class A { init() { return 1; } }
\*   6: fn f() { fn g() { return 5; } return g(); } print f();
\*   7: while (true) return 1;
ReturnProgram(i) ==
    LET true == Literal(BoolV(TRUE))
        print_f == PrintStmt(Call(V("f", 9), <<>>))
    IN [tokens |-> 20,
        stmts |->
          CASE i.n = 0 -> <<PrintStmt(IntLit(1)), Ret(1, IntLit(1))>>
            [] i.n = 1 -> <<Block(<<Ret(1, NoExpr)>>)>>
            [] i.n = 2 -> <<Function(Ident("f", 1), <<>>,
                              <<While(true, Block(<<Ret(2, IntLit(1))>>))>>),
                            print_f>>
            [] i.n = 3 -> <<Class(Ident("A", 1), NoExpr,
                              <<Function(Ident("m", 2), <<>>,
                                  <<If(true, Block(<<Ret(3, IntLit(2))>>), NoStmt),
                                    Ret(4, IntLit(3))>>)>>),
                            PrintStmt(Call(Get(Call(V("A", 5), <<>>), Ident("m", 6)),
                                           <<>>))>>
            [] i.n = 4 -> <<Function(Ident("f", 1), <<>>,
                              <<Block(<<Block(<<Ret(2, IntLit(4))>>)>>),
                                PrintStmt(IntLit(0))>>),
                            print_f>>
            [] i.n = 5 -> <<Class(Ident("A", 1), NoExpr,
                              <<Function(Ident("init", 2), <<>>,
                                         <<Ret(3, IntLit(1))>>)>>)>>
            [] i.n = 6 -> <<Function(Ident("f", 1), <<>>,
                              <<Function(Ident("g", 2), <<>>, <<Ret(3, IntLit(5))>>),
                                Ret(4, Call(V("g", 5), <<>>))>>),
                            print_f>>
            [] OTHER -> <<While(true, Ret(1, IntLit(1)))>>]

\* let g = 1; then, by n:
\*   0: print undefined_name;                    1: undefined_name = 2;
\*   2: fn f() { return undefined_name; } print f();
\*   3: class A { init() { print undefined_name; } } let a = A();
\*   4: fn f() { undefined_name = 2; } f();      5: g = g + 1;
\* then print g;
NameProgram(i) ==
    LET read == V("undefined_name", 2)
        write == Expression(Assign(Ident("undefined_name", 2), IntLit(2)))
        f(body) == Function(Ident("f", 3), <<>>, body)
        call_f == Call(V("f", 4), <<>>)
        middle ==
          CASE i.n = 0 -> <<PrintStmt(read)>>
            [] i.n = 1 -> <<write>>
            [] i.n = 2 -> <<f(<<Ret(5, read)>>), PrintStmt(call_f)>>
            [] i.n = 3 -> <<Class(Ident("A", 6), NoExpr,
                              <<Function(Ident("init", 7), <<>>, <<PrintStmt(read)>>)>>),
                            Var(Ident("a", 8), Call(V("A", 9), <<>>))>>
            [] i.n = 4 -> <<f(<<write>>), Expression(call_f)>>
            [] OTHER -> <<Expression(Assign(Ident("g", 10),
                                            Binary(V("g", 11), "Plus", IntLit(1))))>>
    IN [tokens |-> 20,
        stmts |-> <<Var(Ident("g", 1), IntLit(1))>> \o middle \o <<PrintStmt(V("g", 12))>>]

\* let x = <the value i.x>; let a = 0; then, by n:
\*   0: if (x) a = 1; else a = 2;        1: a = !x;
\*   2: a = x and 1;                     3: a = x or 1;
\*   4: while (x) { a = a + 1; x = none; }
\* then print a;
TruthProgram(i) ==
    LET set_a(id, value) == Expression(Assign(Ident("a", id), value))
        middle ==
          CASE i.n = 0 -> If(V("x", 3), set_a(4, IntLit(1)), set_a(5, IntLit(2)))
            [] i.n = 1 -> set_a(4, Unary("Bang", V("x", 3)))
            [] i.n = 2 -> set_a(4, Logical(V("x", 3), "And", IntLit(1)))
            [] i.n = 3 -> set_a(4, Logical(V("x", 3), "Or", IntLit(1)))
            [] OTHER -> While(V("x", 3),
                          Block(<<set_a(4, Binary(V("a", 5), "Plus", IntLit(1))),
                                  Expression(Assign(Ident("x", 6), Literal(NoneV)))>>))
    IN [tokens |-> 20,
        stmts |-> <<Var(Ident("x", 1), Literal(i.x)), Var(Ident("a", 2), IntLit(0)),
                    middle, PrintStmt(V("a", 7))>>]

\* let a = 0; then, by n, with <x> the value i.x:
\*   0: print <x> or (a = 7);            1: print <x> and (a = 7);
\*   2: print <x> or undefined_name;     3: print <x> and undefined_name;
\* then print a;
LogicProgram(i) ==
    LET skipped == IF i.n \in {0, 1} THEN Assign(Ident("a", 2), IntLit(7))
                   ELSE V("undefined_name", 2)
        operator == IF i.n \in {0, 2} THEN "Or" ELSE "And"
    IN [tokens |-> 20,
        stmts |-> <<Var(Ident("a", 1), IntLit(0)),
                    PrintStmt(Logical(Literal(i.x), operator, skipped)),
                    PrintStmt(V("a", 3))>>]

\* let t = ""; def f(x, y, z) { t = t + "f"; } then, by n:
\*   0: f(t = t + "1", t = t + "2", t = t + "3");
\*   1: f(t = t + "1", undefined_name, t = t + "3");
\*   2: print (t = t + "L") + (t = t + "R");
\*   3: undefined_name(t = t + "1");
OrderProgram(i) ==
    LET push(tag, id) ==
            Assign(Ident("t", id), Binary(V("t", id + 1), "Plus", StrLit(tag)))
        last_stmt ==
          CASE i.n = 0 -> Expression(Call(V("f", 8),
                              <<push("1", 10), push("2", 12), push("3", 14)>>))
            [] i.n = 1 -> Expression(Call(V("f", 8),
                              <<push("1", 10), V("undefined_name", 12),
                                push("3", 14)>>))
            [] i.n = 2 -> PrintStmt(Binary(push("L", 10), "Plus", push("R", 12)))
            [] OTHER -> Expression(Call(V("undefined_name", 8), <<push("1", 10)>>))
    IN [tokens |-> 20,
        stmts |-> <<Var(Ident("t", 1), StrLit("")),
                    Function(Ident("f", 2),
                             <<Ident("x", 3), Ident("y", 4), Ident("z", 5)>>,
                             <<Expression(push("f", 6))>>),
                    last_stmt>>]

\* programs that declare the name a twice, by n:
\*   0: { let a = 1; let a = 2; print a; }
\*   1: def f(a, a) { print a; }
\*   2: let a = 1; let a = 2; print a;
\*   3: { let a = 1; { let a = 2; print a; } }
DuplicateProgram(i) ==
    LET twice == <<Var(Ident("a", 1), IntLit(1)), Var(Ident("a", 2), IntLit(2)),
                   PrintStmt(V("a", 3))>>
    IN [tokens |-> 20,
        stmts |->
          CASE i.n = 0 -> <<Block(twice)>>
            [] i.n = 1 -> <<Function(Ident("f", 4), <<Ident("a", 1), Ident("a", 2)>>,
                                     <<PrintStmt(V("a", 3))>>)>>
            [] i.n = 2 -> twice
            [] OTHER -> <<Block(<<twice[1], Block(<<twice[2], twice[3]>>)>>)>>]

\* uses of `this` and `super` in and out of classes, by n:
\*    0: print this;                       1: def f() { print this; }
\*    2: class A { m() { print this; } }   3: class A { m() { super.m(); } }
\*    4: class B {} class A : B { m() { super.m(); } }
\*    5: print super.m;
\*    6: class B {} class A : B { m() { class C { k() { this; } } super.m(); } }
\*    7: class B {} class A : B { m() { class C { k() { super.k(); } } } }
\*    8: class B {} class A { m() { class C : B { k() { super.k(); } } super.m(); } }
\*    9: class A { m() { } } print this;
\*   10: class A { m() { class C { k() { } } print this; } }
\*   11: class B {} class A : B { m() { } } print super.m;
ClassContextProgram(i) ==
    LET this(id) == This(Kw("This", "this", id))
        super(name, id) == Super(Kw("Super", "super", id), Ident(name, id + 1))
        super_call(name, id) == Expression(Call(super(name, id), <<>>))
        m(body) == <<Function(Ident("m", 1), <<>>, body)>>
        C(superclass, body) ==
            Class(Ident("C", 2), superclass, <<Function(Ident("k", 3), <<>>, body)>>)
        B == Class(Ident("B", 4), NoExpr, <<>>)
        A(superclass, body) == Class(Ident("A", 5), superclass, m(body))
    IN [tokens |-> 20,
        stmts |->
          CASE i.n = 0 -> <<PrintStmt(this(6))>>
            [] i.n = 1 -> <<Function(Ident("f", 7), <<>>, <<PrintStmt(this(6))>>)>>
            [] i.n = 2 -> <<A(NoExpr, <<PrintStmt(this(6))>>)>>
            [] i.n = 3 -> <<A(NoExpr, <<super_call("m", 8)>>)>>
            [] i.n = 4 -> <<B, A(V("B", 10), <<super_call("m", 8)>>)>>
            [] i.n = 5 -> <<PrintStmt(super("m", 8))>>
            [] i.n = 6 -> <<B, A(V("B", 10), <<C(NoExpr, <<Expression(this(6))>>),
                                               super_call("m", 8)>>)>>
            [] i.n = 7 -> <<B, A(V("B", 10), <<C(NoExpr, <<super_call("k", 8)>>)>>)>>
            [] i.n = 8 -> <<B, A(NoExpr, <<C(V("B", 10), <<super_call("k", 11)>>),
                                           super_call("m", 8)>>)>>
            [] i.n = 9 -> <<A(NoExpr, <<>>), PrintStmt(this(6))>>
            [] i.n = 10 -> <<A(NoExpr, <<C(NoExpr, <<>>), PrintStmt(this(6))>>)>>
            [] OTHER -> <<B, A(V("B", 10), <<>>), PrintStmt(super("m", 8))>>]

\* the operands tried for == and !=; a float is written by its whole value
Operands ==
    <<NoneV, BoolV(FALSE), BoolV(TRUE), IntV(1), IntV(2), FloatV(1), FloatV(2),
      StrV("a"), StrV("b"), StrV("1")>>

\* print <Operands[i.n]> == <Operands[i.m]>;
\* print <Operands[i.n]> != <Operands[i.m]>;
EqualityProgram(i) ==
    [tokens |-> 20,
     stmts |-> <<PrintStmt(Binary(Literal(Operands[i.n]), "EqualEqual",
                                  Literal(Operands[i.m]))),
                 PrintStmt(Binary(Literal(Operands[i.n]), "BangEqual",
                                  Literal(Operands[i.m])))>>]

\* blocks nested m + 1 deep around a statement, by n:
\*   0: let a = 1; { .. { let b = a; print b; } .. } print a;
\*   1: fn f() { { .. { return 1; } .. } print 0; } { print f(); }
\*   2: { .. { print undefined_name; } .. }
\*   3: fn f() { { .. { print undefined_name; } .. } } { { f(); } }
\*   4: class A { m() { { .. { return 1; } .. } } }
\*      { class B < A {} { .. { print B().m(); } .. } }
\*   5: fn f(p) { return p; } { .. { f(); } .. }
Nest(depth, statements) ==
    IF depth = 0 THEN Block(statements)
    ELSE IF depth = 1 THEN Block(<<Block(statements)>>)
    ELSE Block(<<Block(<<Block(statements)>>)>>)

FramesProgram(i) ==
    LET bad == PrintStmt(V("undefined_name", 2))
        f(body) == Function(Ident("f", 1), <<>>, body)
    IN [tokens |-> 20,
        stmts |->
          CASE i.n = 0 -> <<Var(Ident("a", 1), IntLit(1)),
                            Nest(i.m, <<Var(Ident("b", 2), V("a", 3)),
                                        PrintStmt(V("b", 4))>>),
                            PrintStmt(V("a", 5))>>
            [] i.n = 1 -> <<f(<<Nest(i.m, <<Ret(3, IntLit(1))>>),
                                PrintStmt(IntLit(0))>>),
                            Block(<<PrintStmt(Call(V("f", 4), <<>>))>>)>>
            [] i.n = 2 -> <<Nest(i.m, <<bad>>)>>
            [] i.n = 3 -> <<f(<<Nest(i.m, <<bad>>)>>),
                            Nest(1, <<Expression(Call(V("f", 4), <<>>))>>)>>
            [] i.n = 4 -> <<Class(Ident("A", 1), NoExpr,
                              <<Function(Ident("m", 2), <<>>,
                                         <<Nest(i.m, <<Ret(3, IntLit(1))>>)>>)>>),
                            Block(<<Class(Ident("B", 4), V("A", 5), <<>>),
                                    Nest(i.m, <<PrintStmt(Call(
                                        Get(Call(V("B", 6), <<>>), Ident("m", 7)),
                                        <<>>))>>)>>)>>
            [] OTHER -> <<Function(Ident("f", 1), <<Ident("p", 2)>>,
                                   <<Ret(3, V("p", 4))>>),
                          Nest(i.m, <<Expression(Call(V("f", 5), <<>>))>>)>>]

\* let a = 1; then a second declaration of a, by n:
\*   0: let a = 2;     1: fn a() { }     2: class a { }     3: let a = 2; a = 3;
\* and a read of a, by m:   0: print a;   1: fn f() { print a; } f();
RedeclareProgram(i) ==
    LET again == CASE i.n = 1 -> <<Function(Ident("a", 2), <<>>, <<>>)>>
                   [] i.n = 2 -> <<Class(Ident("a", 2), NoExpr, <<>>)>>
                   [] i.n = 3 -> <<Var(Ident("a", 2), IntLit(2)),
                                   Expression(Assign(Ident("a", 3), IntLit(3)))>>
                   [] OTHER -> <<Var(Ident("a", 2), IntLit(2))>>
        read == IF i.m = 0 THEN <<PrintStmt(V("a", 4))>>
                ELSE <<Function(Ident("f", 5), <<>>, <<PrintStmt(V("a", 4))>>),
                       Expression(Call(V("f", 6), <<>>))>>
    IN [tokens |-> 20,
        stmts |-> <<Var(Ident("a", 1), IntLit(1))>> \o again \o read]

\* the operators and the operands tried for integer arithmetic: i64::MIN, -1,
\* 0, 1, 2, 3037000500 (the least integer whose square is above i64::MAX)
\* and i64::MAX; a negative operand is written as the source writes it
ArithOps == <<"Plus", "Minus", "Star", "Slash", "Rem">>

I64Max == Literal(IntOf(Wide(FALSE, MagSub(Two63, <<1>>))))

I64Operands ==
    <<Binary(Binary(IntLit(0), "Minus", I64Max), "Minus", IntLit(1)),
      Unary("Minus", IntLit(1)), IntLit(0), IntLit(1), IntLit(2),
      Literal(IntOf(Wide(FALSE, MagShift(MagOf(30370005))))), I64Max>>

\* let r = <a> <op> <b>;   with op = ArithOps[n] and a, b the operands m
\* stands for: a = I64Operands[m / 7 + 1], b = I64Operands[m % 7 + 1]
ArithProgram(i) ==
    [tokens |-> 20,
     stmts |-> <<Var(Ident("r", 1),
                     Binary(I64Operands[(i.m \div Len(I64Operands)) + 1],
                            ArithOps[i.n],
                            I64Operands[(i.m % Len(I64Operands)) + 1]))>>]

\* references through blocks, loops, functions and methods, by n:
\*   0: { let a = 1; { let a = 2; print a; } print a; }
\*   1: { let a = 1; let b = 2; { let c = 3; let a = 4; { print b; print a; print g; } } }
\*   2: { let a = 1; let a = a; print a; }
\*   3: def f(a) { let b = a; { print b; print a; } } { f(1); }
\*   4: { let n = 0; def f() { n = n + 1; return n; } print f(); print f(); print n; }
\*   5: { let s = 0; for (let i = 0; i != 2; i = i + 1) { s = s + i; } print s; }
\*   6: { let k = 1; class A { m() { return k; } g() { return this.m(); } }
\*        print A().g(); }
\*   7: { let k = 1; class A { m() { return k; } } class B < A { h() { return k; } }
\*        print B().h(); print B().m(); }
\*   8: { def r(n) { if (n == 0) return 0; return r(n - 1); } print r(2); }
\*   9: def o() { let x = 1; def i() { return x; } return i(); } print o();
\*  10: def f(a) { let a = a; print a; } { f(1); }
ScopesProgram(i) ==
    LET let(name, id, value) == Var(Ident(name, id), value)
        def(name, id, params, body) == Function(Ident(name, id), params, body)
        call_of(name, id, arguments) == Call(V(name, id), arguments)
        new(name, id, method, id2) ==
            Call(Get(Call(V(name, id), <<>>), Ident(method, id2)), <<>>)
        set_to(name, id, value) == Expression(Assign(Ident(name, id), value))
    IN [tokens |-> 40,
        stmts |->
          CASE i.n = 0 -> <<Block(<<let("a", 1, IntLit(1)),
                                    Block(<<let("a", 2, IntLit(2)),
                                            PrintStmt(V("a", 3))>>),
                                    PrintStmt(V("a", 4))>>)>>
            [] i.n = 1 -> <<Block(<<let("a", 1, IntLit(1)), let("b", 2, IntLit(2)),
                                    Block(<<let("c", 3, IntLit(3)),
                                            let("a", 6, IntLit(4)),
                                            Block(<<PrintStmt(V("b", 4)),
                                                    PrintStmt(V("a", 7)),
                                                    PrintStmt(V("g", 5))>>)>>)>>)>>
            [] i.n = 2 -> <<Block(<<let("a", 1, IntLit(1)), let("a", 2, V("a", 3)),
                                    PrintStmt(V("a", 4))>>)>>
            [] i.n = 3 -> <<def("f", 1, <<Ident("a", 2)>>,
                                <<let("b", 3, V("a", 4)),
                                  Block(<<PrintStmt(V("b", 5)),
                                          PrintStmt(V("a", 6))>>)>>),
                            Block(<<Expression(call_of("f", 7, <<IntLit(1)>>))>>)>>
            [] i.n = 4 -> <<Block(<<let("n", 1, IntLit(0)),
                                    def("f", 2, <<>>,
                                        <<set_to("n", 3, Binary(V("n", 4), "Plus",
                                                             IntLit(1))),
                                          Ret(5, V("n", 6))>>),
                                    PrintStmt(call_of("f", 7, <<>>)),
                                    PrintStmt(call_of("f", 8, <<>>)),
                                    PrintStmt(V("n", 9))>>)>>
            [] i.n = 5 -> <<Block(<<let("s", 1, IntLit(0)),
                                    Block(<<let("i", 2, IntLit(0)),
                                            While(Binary(V("i", 3), "BangEqual",
                                                         IntLit(2)),
                                                  Block(<<Block(<<set_to("s", 4,
                                                            Binary(V("s", 5), "Plus",
                                                                   V("i", 6)))>>),
                                                          set_to("i", 7,
                                                            Binary(V("i", 8), "Plus",
                                                                   IntLit(1)))>>))>>),
                                    PrintStmt(V("s", 9))>>)>>
            [] i.n = 6 -> <<Block(<<let("k", 1, IntLit(1)),
                                    Class(Ident("A", 2), NoExpr,
                                          <<def("m", 3, <<>>, <<Ret(4, V("k", 5))>>),
                                            def("g", 6, <<>>,
                                                <<Ret(7, Call(Get(This(Kw("This",
                                                                "this", 8)),
                                                              Ident("m", 9)),
                                                          <<>>))>>)>>),
                                    PrintStmt(new("A", 10, "g", 11))>>)>>
            [] i.n = 7 -> <<Block(<<let("k", 1, IntLit(1)),
                                    Class(Ident("A", 2), NoExpr,
                                          <<def("m", 3, <<>>, <<Ret(4, V("k", 5))>>)>>),
                                    Class(Ident("B", 6), V("A", 7),
                                          <<def("h", 8, <<>>, <<Ret(9, V("k", 10))>>)>>),
                                    PrintStmt(new("B", 11, "h", 12)),
                                    PrintStmt(new("B", 13, "m", 14))>>)>>
            [] i.n = 8 -> <<Block(<<def("r", 1, <<Ident("n", 2)>>,
                                        <<If(Binary(V("n", 3), "EqualEqual", IntLit(0)),
                                             Ret(4, IntLit(0)), NoStmt),
                                          Ret(5, call_of("r", 6,
                                                 <<Binary(V("n", 7), "Minus",
                                                          IntLit(1))>>))>>),
                                    PrintStmt(call_of("r", 8, <<IntLit(2)>>))>>)>>
            [] i.n = 9 -> <<def("o", 1, <<>>,
                                <<let("x", 2, IntLit(1)),
                                  def("i", 3, <<>>, <<Ret(4, V("x", 5))>>),
                                  Ret(6, call_of("i", 7, <<>>))>>),
                            PrintStmt(call_of("o", 8, <<>>))>>
            [] OTHER -> <<def("f", 1, <<Ident("a", 2)>>,
                              <<let("a", 3, V("a", 4)), PrintStmt(V("a", 5))>>),
                          Block(<<Expression(call_of("f", 6, <<IntLit(1)>>))>>)>>]

Programs ==
    {"scopes", "closure", "error", "methods", "super", "init", "classcall", "arity",
     "return", "name", "truth", "equality", "logic",
     "order", "duplicate", "classcontext", "frames",
     "redeclare", "arith"}

Program(p, i) ==
    CASE p = "closure" -> ClosureProgram(i)
      [] p = "error" -> ErrorProgram(i)
      [] p = "methods" -> MethodsProgram(i)
      [] p = "super" -> SuperProgram(i)
      [] p = "init" -> InitProgram(i)
      [] p = "classcall" -> ClassCallProgram(i)
      [] p = "arity" -> ArityProgram(i)
      [] p = "return" -> ReturnProgram(i)
      [] p = "name" -> NameProgram(i)
      [] p = "truth" -> TruthProgram(i)
      [] p = "equality" -> EqualityProgram(i)
      [] p = "logic" -> LogicProgram(i)
      [] p = "order" -> OrderProgram(i)
      [] p = "duplicate" -> DuplicateProgram(i)
      [] p = "classcontext" -> ClassContextProgram(i)
      [] p = "frames" -> FramesProgram(i)
      [] p = "redeclare" -> RedeclareProgram(i)
      [] p = "arith" -> ArithProgram(i)
      [] p = "scopes" -> ScopesProgram(i)

\* the most parameters and arguments the parser accepts
MaxParams == 255

\* the parameter counts tried: small ones and those around the sign bit of a byte
ArityCounts == {0, 1, 2, 127, 128, MaxParams}

\* the values tried for truthiness
Values ==
    {NoneV, BoolV(FALSE), BoolV(TRUE), IntV(0), IntV(1), StrV(""), StrV("a")}

In(ns, ms) == [n : ns, m : ms, x : {NoneV}]

Inputs(p) ==
    CASE p = "closure" -> In(0..2, {0})
      [] p = "error" -> In(0..4, 0..2)
      [] p = "methods" -> In(0..7, 1..3)
      [] p = "super" -> In(0..1, {0})
      [] p = "init" -> In(0..3, 0..1)
      [] p = "classcall" -> In(-1..2, 0..2)
      [] p = "arity" -> {i \in In(ArityCounts, 0..MaxParams) :
                            i.m \in {i.n - 1, i.n, i.n + 1}}
      [] p = "return" -> In(0..7, {0})
      [] p = "name" -> In(0..5, {0})
      [] p = "truth" -> [n : 0..4, m : {0}, x : Values]
      [] p = "equality" -> In(DOMAIN Operands, DOMAIN Operands)
      [] p = "logic" -> [n : 0..3, m : {0}, x : Values]
      [] p = "order" -> In(0..3, {0})
      [] p = "duplicate" -> In(0..3, {0})
      [] p = "classcontext" -> In(0..11, {0})
      [] p = "frames" -> In(0..5, 0..2)
      [] p = "redeclare" -> In(0..3, 0..1)
      [] p = "scopes" -> In(0..10, {0})
      [] p = "arith" -> In(DOMAIN ArithOps,
                           0..(Len(I64Operands) * Len(I64Operands) - 1))

-----------------------------------------------------------------------------
(* The lexer (lexer.rs).  The source is a sequence of characters, each a     *)
(* string of length one; the characters of the model are ASCII, so a byte    *)
(* offset is a character offset.  A token of the lexer carries its literal;  *)
(* the id drawn from TOKEN_ATOMIC is left out, no rule of the parser reads   *)
(* it.                                                                       *)

LexToken(token_type, lexeme, literal, line) ==
    [token_type |-> token_type, lexeme |-> lexeme, literal |-> literal, line |-> line]

\* Lexer::new
NewLexer(source) == [source |-> source, start |-> 0, current |-> 0, line |-> 1]

NoChar == "none"

Digit == {"0", "1", "2", "3", "4", "5", "6", "7", "8", "9"}
Alphabetic == {"a", "b", "c", "d", "e", "f", "g", "h", "i", "j", "k", "l", "m",
               "n", "o", "p", "q", "r", "s", "t", "u", "v", "w", "x", "y", "z",
               "A", "B", "C", "D", "E", "F", "G", "H", "I", "J", "K", "L", "M",
               "N", "O", "P", "Q", "R", "S", "T", "U", "V", "W", "X", "Y", "Z"}

\* the text source[from..to), None when `to` is past the end
RECURSIVE Slice(_, _, _)
Slice(source, from, to) ==
    IF from >= to THEN "" ELSE source[from + 1] \o Slice(source, from + 1, to)

\* str::parse::<i64> of a run of digits
RECURSIVE ParseDigits(_, _, _)
ParseDigits(source, from, to) ==
    IF from >= to THEN 0
    ELSE 10 * ParseDigits(source, from, to - 1)
         + (CHOOSE d \in 0..9 : ToString(d) = source[to])

\* Lexer::is_at_end
is_at_end(lx) == lx.current >= Len(lx.source)

\* Lexer::peek and Lexer::peek_next
peek(lx) ==
    IF lx.current < Len(lx.source) THEN lx.source[lx.current + 1] ELSE NoChar

peek_next(lx) ==
    IF lx.current + 1 < Len(lx.source) THEN lx.source[lx.current + 2] ELSE NoChar

\* Lexer::advance
lexer_advance(lx) == [lx EXCEPT !.current = @ + 1]

\* Lexer::take_while: the lexer afterwards, and whether start..current is
\* not empty
take_while(lx, predicate(_)) ==
    LET stops == {k \in lx.current..(Len(lx.source) - 1) : ~predicate(lx.source[k + 1])}
        end == IF stops # {} THEN CHOOSE k \in stops : \A j \in stops : k <= j
               ELSE IF lx.current < Len(lx.source) THEN Len(lx.source)
               ELSE lx.current
    IN [lx |-> [lx EXCEPT !.current = end], some |-> lx.start # end, end |-> end]

\* Lexer::yield_literal_token and Lexer::yield_token
yield_literal_token(lx, token_type, literal) ==
    LexToken(token_type,
             IF lx.current <= Len(lx.source) THEN Slice(lx.source, lx.start, lx.current)
             ELSE "",
             literal, lx.line)

yield_token(lx, token_type) == yield_literal_token(lx, token_type, NoneV)

\* Lexer::char_matches
char_matches(lx, expected) == peek(lx) = expected

\* the `match ident` of Lexer::yield_identifier
Keyword(ident) ==
    CASE ident = "and" -> "And"       [] ident = "class" -> "Class"
      [] ident = "else" -> "Else"     [] ident = "false" -> "False"
      [] ident = "for" -> "For"       [] ident = "if" -> "If"
      [] ident = "or" -> "Or"         [] ident = "return" -> "Return"
      [] ident = "super" -> "Super"   [] ident = "this" -> "This"
      [] ident = "true" -> "True"     [] ident = "let" -> "Let"
      [] ident = "while" -> "While"   [] ident = "def" -> "Def"
      [] ident = "print" -> "Print"   [] ident = "None" -> "None"
      [] OTHER -> "Identifier"

\* Lexer::token_from_result of an Err
ErrorToken(lx, msg) == LexToken("Error", msg, NoneV, lx.line)

\* Lexer::yield_identifier: [lx, token]
yield_identifier(lx) ==
    Let(take_while(lx, LAMBDA ch : ch \in Alphabetic \cup Digit \cup {"_"}), LAMBDA value :
    [lx |-> value.lx,
     token |-> IF value.some
               THEN yield_token(value.lx,
                                Keyword(Slice(lx.source, lx.start, value.end)))
               ELSE ErrorToken(value.lx, "")])

\* Lexer::yield_number: [lx, token]; a float literal is kept as its whole part
\* and the digits of its fraction
yield_number(lx) ==
    Let(take_while(lx, LAMBDA ch : ch \in Digit), LAMBDA value :
    IF ~value.some THEN [lx |-> value.lx, token |-> ErrorToken(value.lx, "")]
    ELSE IF peek(value.lx) = "." /\ peek_next(value.lx) \in Digit
    THEN Let(take_while(lexer_advance(value.lx), LAMBDA ch : ch \in Digit), LAMBDA fr_value :
         [lx |-> fr_value.lx,
          token |-> yield_literal_token(fr_value.lx, "Number",
                        FloatV([whole |-> ParseDigits(lx.source, lx.start, value.end),
                                fraction |-> Slice(lx.source, value.end + 1,
                                                   fr_value.end)]))])
    ELSE [lx |-> value.lx,
          token |-> yield_literal_token(value.lx, "Number",
                        IntV(ParseDigits(lx.source, lx.start, value.end)))])

\* Lexer::yield_string: [lx, token, panic]
yield_string(lx) ==
    Let(take_while(lx, LAMBDA ch : ch # "\""), LAMBDA value :
    Let(lexer_advance(value.lx), LAMBDA l1 :
    IF ~value.some THEN [lx |-> l1, token |-> ErrorToken(l1, ""), panic |-> FALSE]
    ELSE IF is_at_end(l1) /\ l1.source[Len(l1.source)] # "\""
    THEN [lx |-> l1, token |-> ErrorToken(l1, "Unterminated string"), panic |-> TRUE]
    ELSE [lx |-> l1,
          token |-> yield_literal_token(l1, "SoxString",
                        StrV(Slice(lx.source, lx.start + 1, value.end))),
          panic |-> FALSE]))

\* the tokens of one character, and of one character that `=` may follow
Single ==
    [c \in {"(", ")", "{", "}", ",", ".", "-", "+", ";", ":", "%", "*"} |->
        CASE c = "(" -> "LeftParen"   [] c = ")" -> "RightParen"
          [] c = "{" -> "LeftBrace"   [] c = "}" -> "RightBrace"
          [] c = "," -> "Comma"       [] c = "." -> "Dot"
          [] c = "-" -> "Minus"       [] c = "+" -> "Plus"
          [] c = ";" -> "Semi"        [] c = ":" -> "Colon"
          [] c = "%" -> "Rem"         [] OTHER -> "Star"]

Double ==
    [c \in {"!", "=", "<", ">"} |->
        CASE c = "!" -> <<"Bang", "BangEqual">>
          [] c = "=" -> <<"Equal", "EqualEqual">>
          [] c = "<" -> <<"Less", "LessEqual">>
          [] OTHER -> <<"Greater", "GreaterEqual">>]

\* the arm of Lexer::next for `/* ... */`: the lexer at the closing pair, or
\* found = FALSE when the source ends first
block_comment(lx) ==
    LET closes == {k \in lx.current..(Len(lx.source) - 2) :
                      lx.source[k + 1] = "*" /\ lx.source[k + 2] = "/"}
        end == IF closes # {} THEN CHOOSE k \in closes : \A j \in closes : k <= j
               ELSE IF lx.current + 1 < Len(lx.source) THEN Len(lx.source) - 1
               ELSE lx.current
        newlines == Cardinality({k \in lx.current..(end - 1) : lx.source[k + 1] = "\n"})
    IN [lx |-> [lx EXCEPT !.current = end, !.line = @ + newlines],
        found |-> closes # {},
        comment_buffer |-> Slice(lx.source, lx.current, end)]

\* Iterator::next of the Lexer: [lx, k, token] with k "some", "none" (the
\* iterator is exhausted) or "panic"
Lexer_next(lx0) ==
    IF is_at_end(lx0) THEN [lx |-> lx0, k |-> "none", token |-> ErrorToken(lx0, "")]
    ELSE
    LET character == peek(lx0)
        lx == lexer_advance([lx0 EXCEPT !.start = lx0.current])
        some(l, token) == [lx |-> l, k |-> "some", token |-> token]
    IN
    CASE character \in DOMAIN Single -> some(lx, yield_token(lx, Single[character]))
      [] character \in DOMAIN Double ->
            IF char_matches(lx, "=")
            THEN some(lexer_advance(lx),
                      yield_token(lexer_advance(lx), Double[character][2]))
            ELSE some(lx, yield_token(lx, Double[character][1]))
      [] character = "/" ->
            IF char_matches(lx, "/")
            THEN Let(take_while(lexer_advance(lx), LAMBDA ch : ch # "\n"), LAMBDA value :
                 some(value.lx,
                      LexToken("Comment", Slice(lx.source, lx.start, value.end),
                               StrV(Slice(lx.source, lx.start, value.end)), lx.line)))
            ELSE IF char_matches(lx, "*")
            THEN Let(block_comment(lexer_advance(lx)), LAMBDA c :
                 IF ~c.found
                 THEN [lx |-> c.lx, k |-> "panic",
                       token |-> ErrorToken(c.lx, "Found an unclosed comment")]
                 ELSE some(lexer_advance(lexer_advance(c.lx)),
                           LexToken("Comment", c.comment_buffer,
                                    StrV(c.comment_buffer), c.lx.line)))
            ELSE some(lx, yield_token(lx, "Slash"))
      [] character = "\n" -> some([lx EXCEPT !.line = @ + 1], yield_token(lx, "Newline"))
      [] character = "\"" ->
            Let(yield_string(lx), LAMBDA sox_string :
            [lx |-> sox_string.lx, k |-> IF sox_string.panic THEN "panic" ELSE "some",
             token |-> sox_string.token])
      [] character \in Alphabetic \cup {"_"} ->
            Let(yield_identifier(lx), LAMBDA ident_val : some(ident_val.lx, ident_val.token))
      [] character \in Digit ->
            Let(yield_number(lx), LAMBDA numer_val : some(numer_val.lx, numer_val.token))
      [] character = " " -> some(lx, yield_token(lx, "Whitespace"))
      [] OTHER ->
            some(lx, ErrorToken(lx, "Token -{character} - not in allowed set of valid tokens"))

-----------------------------------------------------------------------------
(* The parser (parser.rs).  p holds the token iterator (the tokens and the   *)
(* number already taken from it) and the last of processed_tokens; a rule    *)
(* returns the parser afterwards with its Result: [p, r].                    *)

\* Parser::new
NewParser(tokens) == [tokens |-> tokens, pos |-> 0, processed |-> <<>>]

TO_IGNORE == {"Comment", "Whitespace", "Newline"}

Parsed(v) == [k |-> "ok", v |-> v]
ParserSyntaxError(msg, line) == [k |-> "err", msg |-> msg, line |-> line]
ParserPanic == [k |-> "panic"]

P(p, r) == [p |-> p, r |-> r]

\* the operator `?` on the result x of a rule, followed by the code Op(x)
Try(res, Op(_)) ==
    CHOOSE out \in {IF x.r.k = "ok" THEN Op(x) ELSE x : x \in {res}} : TRUE

\* the loop of at_end and of check that takes the ignored tokens from the
\* iterator
SkipIgnored(p) ==
    LET rest == {k \in p.pos..(Len(p.tokens) - 1) :
                    p.tokens[k + 1].token_type \notin TO_IGNORE}
    IN [p EXCEPT !.pos = IF rest = {} THEN IF p.pos < Len(p.tokens) THEN Len(p.tokens)
                                            ELSE p.pos
                         ELSE CHOOSE k \in rest : \A j \in rest : k <= j]

\* `self.tokens.peek()`: a sequence of at most one token
Peek(p) == IF p.pos < Len(p.tokens) THEN <<p.tokens[p.pos + 1]>> ELSE <<>>

\* no token is left, or the next one is the end-of-input token
Ended(p) == Peek(p) = <<>> \/ Peek(p)[1].token_type = "EOF"

\* Parser::at_end: [p, b]
at_end(p) == [p |-> SkipIgnored(p), b |-> Ended(SkipIgnored(p))]

\* the type of the token that check and match_token compare with their
\* candidates, "" where at_end holds
Upcoming(p) ==
    LET q == SkipIgnored(p) IN IF Ended(q) THEN "" ELSE Peek(q)[1].token_type

\* Parser::check: [p, b]
check(p, token_type) == [p |-> SkipIgnored(p), b |-> Upcoming(p) = token_type]

\* Parser::advance
parser_advance(p) ==
    LET q == SkipIgnored(p)
    IN IF Ended(q) THEN q ELSE [q EXCEPT !.pos = @ + 1, !.processed = Peek(q)]

\* Parser::match_token, the token types tried in any order: [p, b]
match_token(p, token_types) ==
    IF Upcoming(p) \in token_types THEN [p |-> parser_advance(p), b |-> TRUE]
    ELSE [p |-> SkipIgnored(p), b |-> FALSE]

\* the parser after the match_token that matched
Matched(p, token_type) == match_token(p, {token_type}).p

\* Parser::previous
previous(p) == p.processed[1]

\* Parser::consume; `self.previous()` unwraps the last processed token
consume(p, token_type, message) ==
    LET q == SkipIgnored(p) IN
    IF Upcoming(p) = token_type THEN P(parser_advance(p), Parsed(Peek(q)[1]))
    ELSE IF q.processed = <<>> THEN P(q, ParserPanic)
    ELSE P(q, ParserSyntaxError("\"" \o message \o "\"", previous(q).line))

\* the loop of Parser::synchronize, after its first advance
RECURSIVE SynchronizeLoop(_)
SynchronizeLoop(p) ==
    Let(at_end(p), LAMBDA a :
    IF a.b THEN a.p
    ELSE IF previous(a.p).token_type = "Semi" THEN a.p
    ELSE IF Peek(a.p)[1].token_type \in
              {"Class", "Def", "Let", "For", "If", "While", "Print", "Return"}
    THEN a.p
    ELSE SynchronizeLoop(parser_advance(a.p)))

\* Parser::synchronize
synchronize(p) == SynchronizeLoop(parser_advance(p))

\* the binary rules from the loosest to the tightest: or, and, equality,
\* comparison, term, factor
Operators(level) ==
    CASE level = 1 -> {"Or"}
      [] level = 2 -> {"And"}
      [] level = 3 -> {"BangEqual", "EqualEqual"}
      [] level = 4 -> {"Greater", "GreaterEqual", "Less", "LessEqual"}
      [] level = 5 -> {"Minus", "Plus"}
      [] OTHER -> {"Slash", "Star", "Mod"}

\* the most iterations the loops of function and of finish_call can make
\* before their limit checks end them
MaxIterations == MaxParams + 2

RECURSIVE declaration(_), function(_), statement(_), block(_), expression(_)
RECURSIVE binary(_, _), BinaryLoop(_, _, _), BinaryLoops(_, _, _)
RECURSIVE unary(_), call(_), CallLoop(_, _)
RECURSIVE finish_call(_, _), ArgumentsLoop(_, _, _, _), primary(_)
RECURSIVE BlockLoop(_, _), MethodsLoop(_, _), ParametersLoop(_, _, _, _, _)

\* Parser::primary
primary(p) ==
    LET upcoming == Upcoming(p) IN
    CASE upcoming = "None" -> P(Matched(p, "None"), Parsed(Literal(NoneV)))
      [] upcoming = "False" -> P(Matched(p, "False"), Parsed(Literal(BoolV(FALSE))))
      [] upcoming = "True" -> P(Matched(p, "True"), Parsed(Literal(BoolV(TRUE))))
      [] upcoming \in {"Number", "SoxString"} ->
            Let(Matched(p, upcoming), LAMBDA q :
            P(q, Parsed(Literal(previous(q).literal))))
      [] upcoming = "Super" ->
            Let(Matched(p, "Super"), LAMBDA q :
            Try(consume(q, "Dot", "Expect '.' after 'super'"), LAMBDA dot :
            Try(consume(dot.p, "Identifier", "Expect superclass method name"),
                LAMBDA method :
            P(method.p, Parsed(Super(previous(q), method.r.v))))))
      [] upcoming = "This" ->
            Let(Matched(p, "This"), LAMBDA q : P(q, Parsed(This(previous(q)))))
      [] upcoming = "Identifier" ->
            Let(Matched(p, "Identifier"), LAMBDA q : P(q, Parsed(Variable(previous(q)))))
      [] upcoming = "LeftParen" ->
            Try(expression(Matched(p, "LeftParen")), LAMBDA expr :
            Try(consume(expr.p, "RightParen", "Expect ')' after expression."),
                LAMBDA paren :
            P(paren.p, Parsed(Grouping(expr.r.v)))))
      [] OTHER ->
            Let(SkipIgnored(p), LAMBDA q :
            IF Peek(q) = <<>> THEN P(q, ParserPanic)
            ELSE P(q, ParserSyntaxError("Failed to parse primary token - "
                                          \o Peek(q)[1].token_type,
                                        Peek(q)[1].line)))

\* the loop of Parser::finish_call, iterations lo..hi after the arguments
\* collected so far: [p, r, arguments, more]; the iterations lo..mid run
\* first and their outcome `a` is where the iterations mid+1..hi start
ArgumentsLoop(p, arguments, lo, hi) ==
    IF lo < hi
    THEN CHOOSE out \in
            {IF a.r.k # "ok" \/ ~a.more THEN a
             ELSE ArgumentsLoop(a.p, a.arguments, (lo + hi) \div 2 + 1, hi) :
                a \in {ArgumentsLoop(p, arguments, lo, (lo + hi) \div 2)}} : TRUE
    ELSE IF lo - 1 > MaxParams
    THEN [p |-> p, more |-> FALSE, arguments |-> arguments,
          r |-> ParserSyntaxError("Function cannot have more than 255 arguments",
                                  previous(p).line)]
    ELSE Let(expression(p), LAMBDA e :
         IF e.r.k # "ok"
         THEN [p |-> e.p, r |-> e.r, arguments |-> arguments, more |-> FALSE]
         ELSE [p |-> match_token(e.p, {"Comma"}).p, r |-> e.r,
               arguments |-> Append(arguments, e.r.v),
               more |-> Upcoming(e.p) = "Comma"])

\* Parser::finish_call
finish_call(p, callee) ==
    Let(IF Upcoming(p) = "RightParen"
        THEN [p |-> SkipIgnored(p), r |-> Parsed(0), arguments |-> <<>>,
              more |-> FALSE]
        ELSE ArgumentsLoop(SkipIgnored(p), <<>>, 1, MaxIterations), LAMBDA a :
    IF a.r.k # "ok" THEN P(a.p, a.r) ELSE
    Try(consume(a.p, "RightParen", "Expect ')' after arguments."), LAMBDA paren :
    P(paren.p, Parsed([k |-> "Call", callee |-> callee, paren |-> paren.r.v,
                       arguments |-> a.arguments]))))

\* the loop of Parser::call
CallLoop(p, expr) ==
    LET upcoming == Upcoming(p) IN
    CASE upcoming = "LeftParen" ->
            Try(finish_call(Matched(p, "LeftParen"), expr), LAMBDA c :
            CallLoop(c.p, c.r.v))
      [] upcoming = "Dot" ->
            Try(consume(Matched(p, "Dot"), "Identifier",
                        "Expect property name after '.'"), LAMBDA name :
            CallLoop(name.p, Get(expr, name.r.v)))
      [] OTHER -> P(SkipIgnored(p), Parsed(expr))

\* Parser::call
call(p) == Try(primary(p), LAMBDA expr : CallLoop(expr.p, expr.r.v))

\* Parser::unary
unary(p) ==
    IF Upcoming(p) \in {"Bang", "Minus"}
    THEN Let(parser_advance(p), LAMBDA q :
         Try(unary(q), LAMBDA right :
         P(right.p, Parsed(Unary(previous(q), right.r.v)))))
    ELSE call(SkipIgnored(p))

\* the loop of Parser::or, and, equality, comparison, term and factor
BinaryLoop(p, level, expr) ==
    Let(match_token(p, Operators(level)), LAMBDA m :
    IF ~m.b THEN P(m.p, Parsed(expr)) ELSE
    Try(binary(m.p, level + 1), LAMBDA right :
    BinaryLoop(right.p, level,
               IF level <= 2 THEN Logical(expr, previous(m.p), right.r.v)
               ELSE Binary(expr, previous(m.p), right.r.v))))

\* the loops of the rules `from` down to `to` over the expression of a tighter
\* rule, in the order in which the nested calls return
BinaryLoops(expr, from, to) ==
    IF from < to THEN expr
    ELSE Try(BinaryLoop(expr.p, from, expr.r.v), LAMBDA looped :
         BinaryLoops(looped, from - 1, to))

\* Parser::or (level 1), and, equality, comparison, term, factor (level 6):
\* each rule calls the next tighter one, factor calls unary, and each then
\* runs its loop
binary(p, level) == Try(unary(p), LAMBDA expr : BinaryLoops(expr, 6, level))

\* Parser::expression
expression(p) ==
    Try(binary(p, 1), LAMBDA expr :
    Let(match_token(expr.p, {"Equal"}), LAMBDA m :
    IF ~m.b THEN P(m.p, expr.r) ELSE
    Try(expression(m.p), LAMBDA value :
    IF expr.r.v.k = "Variable"
    THEN P(value.p, Parsed(Assign(expr.r.v.name, value.r.v)))
    ELSE IF expr.r.v.k = "Get"
    THEN P(value.p, Parsed(Set(expr.r.v.object, expr.r.v.name, value.r.v)))
    ELSE P(value.p, expr.r))))

\* Parser::expression_statement and Parser::print_statement
expression_statement(p) ==
    Try(expression(p), LAMBDA e :
    Try(consume(e.p, "Semi", "Expect ';' after expression."), LAMBDA semi :
    P(semi.p, Parsed(Expression(e.r.v)))))

print_statement(p) ==
    Try(expression(p), LAMBDA v :
    Try(consume(v.p, "Semi", "Expect ';' after value."), LAMBDA semi :
    P(semi.p, Parsed(PrintStmt(v.r.v)))))

\* Parser::var_declaration
var_declaration(p) ==
    Try(consume(p, "Identifier", "Expect variable name."), LAMBDA name :
    Let(match_token(name.p, {"Equal"}), LAMBDA m :
    Try(IF m.b THEN expression(m.p) ELSE P(m.p, Parsed(NoExpr)), LAMBDA initializer :
    Try(consume(initializer.p, "Semi", "Expect ';' after variable declaration"),
        LAMBDA semi :
    P(semi.p, Parsed(Var(name.r.v, initializer.r.v)))))))

\* Parser::return_statement
return_statement(p) ==
    LET keyword == previous(p) IN
    Let(check(p, "Semi"), LAMBDA c :
    Try(IF c.b THEN P(c.p, Parsed(Literal(NoneV))) ELSE expression(c.p), LAMBDA value :
    Try(consume(value.p, "Semi", "Expect ';' after return value."), LAMBDA semi :
    P(semi.p, Parsed(ReturnStmt(keyword, value.r.v))))))

\* Parser::while_statement
while_statement(p) ==
    Try(consume(p, "LeftParen", "Expect '(' after 'while'."), LAMBDA lp :
    Try(expression(lp.p), LAMBDA condition :
    Try(consume(condition.p, "RightParen", "Expect ')' after 'while' condition."),
        LAMBDA rp :
    Try(statement(rp.p), LAMBDA body :
    P(body.p, Parsed(While(condition.r.v, body.r.v)))))))

\* Parser::if_statement
if_statement(p) ==
    Try(consume(p, "LeftParen", "Expect '(' after 'if'."), LAMBDA lp :
    Try(expression(lp.p), LAMBDA condition :
    Try(consume(condition.p, "RightParen", "Expect ')' after 'if' condition."),
        LAMBDA rp :
    Try(statement(rp.p), LAMBDA then_branch :
    Let(match_token(then_branch.p, {"Else"}), LAMBDA m :
    Try(IF m.b THEN statement(m.p) ELSE P(m.p, Parsed(NoStmt)), LAMBDA else_branch :
    P(else_branch.p, Parsed(If(condition.r.v, then_branch.r.v, else_branch.r.v)))))))))

\* Parser::for_statement
for_statement(p) ==
    Try(consume(p, "LeftParen", "Expect '(' after 'for'."), LAMBDA lp :
    Try(Let(match_token(lp.p, {"Semi"}), LAMBDA m1 :
        IF m1.b THEN P(m1.p, Parsed(NoStmt)) ELSE
        Let(match_token(m1.p, {"Let"}), LAMBDA m2 :
        IF m2.b THEN var_declaration(m2.p) ELSE expression_statement(m2.p))),
        LAMBDA initializer :
    Let(check(initializer.p, "Semi"), LAMBDA c1 :
    Try(IF c1.b THEN P(c1.p, Parsed(NoExpr)) ELSE expression(c1.p), LAMBDA condition :
    Try(consume(condition.p, "Semi", "Expect ';' after loop condition."), LAMBDA semi :
    Let(check(semi.p, "RightParen"), LAMBDA c2 :
    Try(IF c2.b THEN P(c2.p, Parsed(NoExpr)) ELSE expression(c2.p), LAMBDA increment :
    Try(consume(increment.p, "RightParen", "Expect ')' after for clauses."), LAMBDA rp :
    Try(statement(rp.p), LAMBDA body :
    LET stepped == IF increment.r.v.k = "absent" THEN body.r.v
                   ELSE Block(<<body.r.v, Expression(increment.r.v)>>)
        loop == While(IF condition.r.v.k = "absent" THEN Literal(BoolV(TRUE))
                      ELSE condition.r.v, stepped)
    IN P(body.p, Parsed(IF initializer.r.v.k = "absent" THEN loop
                        ELSE Block(<<initializer.r.v, loop>>))))))))))))

\* Parser::statement
statement(p) ==
    LET upcoming == Upcoming(p) IN
    CASE upcoming = "For" -> for_statement(Matched(p, "For"))
      [] upcoming = "If" -> if_statement(Matched(p, "If"))
      [] upcoming = "While" -> while_statement(Matched(p, "While"))
      [] upcoming = "Print" -> print_statement(Matched(p, "Print"))
      [] upcoming = "Return" -> return_statement(Matched(p, "Return"))
      [] upcoming = "LeftBrace" ->
            Try(block(Matched(p, "LeftBrace")), LAMBDA block_statements :
            P(block_statements.p, Parsed(Block(block_statements.r.v))))
      [] OTHER -> expression_statement(SkipIgnored(p))

\* the loop of Parser::block
BlockLoop(p, statements) ==
    Let(check(p, "RightBrace"), LAMBDA c :
    Let(at_end(c.p), LAMBDA a :
    IF c.b \/ a.b THEN P(a.p, Parsed(statements))
    ELSE Try(declaration(a.p), LAMBDA stmt :
         BlockLoop(stmt.p, Append(statements, stmt.r.v)))))

\* Parser::block
block(p) ==
    Try(BlockLoop(p, <<>>), LAMBDA statements :
    Try(consume(statements.p, "RightBrace", ""), LAMBDA rb :
    P(rb.p, statements.r)))

\* the loop of Parser::function, iterations lo..hi after the parameters
\* collected so far, in the function whose name stands on `line`:
\* [p, r, params, more]
ParametersLoop(p, params, lo, hi, line) ==
    IF lo < hi
    THEN CHOOSE out \in
            {IF a.r.k # "ok" \/ ~a.more THEN a
             ELSE ParametersLoop(a.p, a.params, (lo + hi) \div 2 + 1, hi, line) :
                a \in {ParametersLoop(p, params, lo, (lo + hi) \div 2, line)}} : TRUE
    ELSE IF lo - 1 >= MaxParams
    THEN [p |-> p, more |-> FALSE, params |-> params,
          r |-> ParserSyntaxError("Cannot have more than 255 parameters.", line)]
    ELSE Let(consume(p, "Identifier", "Expect parameter name."), LAMBDA param :
         IF param.r.k # "ok"
         THEN [p |-> param.p, r |-> param.r, params |-> params, more |-> FALSE]
         ELSE [p |-> match_token(param.p, {"Comma"}).p, r |-> param.r,
               params |-> Append(params, param.r.v),
               more |-> Upcoming(param.p) = "Comma"])

\* Parser::function
function(p) ==
    Try(consume(p, "Identifier", "Expect function name."), LAMBDA name :
    Try(consume(name.p, "LeftParen", "Expect '(' after function name."), LAMBDA lp :
    Let(IF Upcoming(lp.p) = "RightParen"
        THEN [p |-> SkipIgnored(lp.p), r |-> Parsed(0), params |-> <<>>,
              more |-> FALSE]
        ELSE ParametersLoop(SkipIgnored(lp.p), <<>>, 1, MaxIterations,
                            name.r.v.line), LAMBDA params :
    IF params.r.k # "ok" THEN P(params.p, params.r) ELSE
    Try(consume(params.p, "RightParen", "Expect ')' after function parameters."),
        LAMBDA rp :
    Try(consume(rp.p, "LeftBrace", "Expect '{' before function body."), LAMBDA lb :
    Try(block(lb.p), LAMBDA body :
    P(body.p, Parsed(Function(name.r.v, params.params, body.r.v)))))))))

\* the loop of Parser::class_declaration
MethodsLoop(p, methods) ==
    Let(check(p, "RightBrace"), LAMBDA c :
    Let(at_end(c.p), LAMBDA a :
    IF c.b \/ a.b THEN P(a.p, Parsed(methods))
    ELSE Try(function(a.p), LAMBDA method :
         MethodsLoop(method.p, Append(methods, method.r.v)))))

\* Parser::class_declaration
class_declaration(p) ==
    Try(consume(p, "Identifier", "Expect a class name"), LAMBDA name :
    Let(match_token(name.p, {"Colon"}), LAMBDA m :
    Try(IF m.b
        THEN Try(consume(m.p, "Identifier", "Expect a superclass name"), LAMBDA sc :
             P(sc.p, Parsed(Variable(previous(sc.p)))))
        ELSE P(m.p, Parsed(NoExpr)), LAMBDA super_class :
    Try(consume(super_class.p, "LeftBrace", "Expect '{' before class body"), LAMBDA lb :
    Try(MethodsLoop(lb.p, <<>>), LAMBDA methods :
    Try(consume(methods.p, "RightBrace", "Expect '}' after class body."), LAMBDA rb :
    P(rb.p, Parsed(Class(name.r.v, super_class.r.v, methods.r.v)))))))))

\* Parser::declaration
declaration(p) ==
    LET upcoming == Upcoming(p) IN
    Let(CASE upcoming = "Class" -> class_declaration(Matched(p, "Class"))
          [] upcoming = "Def" -> function(Matched(p, "Def"))
          [] upcoming = "Let" -> var_declaration(Matched(p, "Let"))
          [] OTHER -> statement(SkipIgnored(p)), LAMBDA val :
    IF val.r.k = "err" THEN P(synchronize(val.p), val.r) ELSE val)

\* the loop of Parser::parse and its return: Ok(statements), Err(errors), or
\* the abort of an unwrap
RECURSIVE ParseLoop(_, _, _)
ParseLoop(p, statements, errors) ==
    IF at_end(p).b
    THEN IF errors = <<>> THEN [k |-> "ok", v |-> statements, errors |-> <<>>]
         ELSE [k |-> "err", v |-> errors, errors |-> errors]
    ELSE Let(declaration(SkipIgnored(p)), LAMBDA stmt :
         IF stmt.r.k = "panic" THEN [k |-> "panic", v |-> <<>>, errors |-> errors]
         ELSE IF stmt.r.k = "ok"
         THEN ParseLoop(stmt.p, Append(statements, stmt.r.v), errors)
         ELSE ParseLoop(stmt.p, statements, Append(errors, stmt.r)))

\* Parser::parse
parse(p) == ParseLoop(p, <<>>, <<>>)

-----------------------------------------------------------------------------
(* The run of a program file (main.rs run, Interpreter::interpret) *)

\* the front end of a run that starts from a parsed program
NoFront == [phase |-> "off"]

Init ==
    /\ prog \in Programs
    /\ inp \in Inputs(prog)
    /\ phase = "parsed"
    /\ pc = 1
    /\ \E checks \in BOOLEAN :
          st = [NewInterpreter(<<>>, Program(prog, inp).tokens)
                  EXCEPT !.overflow_checks = checks]
    /\ last = Ok(NoneV)
    /\ front = NoFront

\* run: the resolver's table becomes _locals; `resolved_data.unwrap()` ends the
\* process on a ResolverError
Resolve ==
    /\ phase = "parsed"
    /\ \E rs \in {resolve(NewResolver(Program(prog, inp).tokens),
                            Program(prog, inp).stmts, 1)} :
          IF rs.err # ""
          THEN phase' = "rejected" /\ st' = println(st, rs.err)
          ELSE /\ phase' = "running"
               /\ st' = [NewInterpreter(rs.resolved, rs.token_atomic)
                           EXCEPT !.overflow_checks = st.overflow_checks]
    /\ UNCHANGED <<prog, inp, pc, last, front>>

\* one iteration of the loop of Interpreter::interpret
interpret ==
    /\ phase = "running"
    /\ \E statements \in {Program(prog, inp).stmts} :
       \E result \in {execute([st EXCEPT !.fuel = MaxFuel], statements[pc])} :
       LET s1 == result.s IN
          /\ last' = result.r
          /\ st' = CASE result.r.k = "ok" ->
                          IF pc = Len(statements) /\ result.r.v.t # "none"
                          THEN println(s1, Repr(result.r.v)) ELSE s1
                     [] result.r.k = "err" -> println(s1, result.r.msg)
                     [] result.r.k = "ret" -> println(s1, "Return")
                     [] OTHER -> s1
          /\ phase' = CASE result.r.k = "ok" ->
                             IF pc = Len(statements) THEN "done" ELSE "running"
                        [] result.r.k \in {"err", "ret"} -> "halted"
                        [] result.r.k = "panic" -> "panicked"
                        [] OTHER -> "diverged"
          /\ pc' = IF result.r.k = "ok" THEN pc + 1 ELSE pc
    /\ UNCHANGED <<prog, inp, front>>

Next == Resolve \/ interpret

Spec == Init /\ [][Next]_vars

-----------------------------------------------------------------------------
(* The front end of run (main.rs): the source is lexed token by token, then  *)
(* parsed.  A text is a sequence of words, each a sequence of characters,    *)
(* with the character ch inserted after the word `at` (at = 0: nothing is     *)
(* inserted).                                                                *)

\* the longest source enumerated character by character
MaxSourceLen == 3

Alphabet == {"\"", "a", "1", ";", "(", " ", "\n", "/", "*", "="}

\* whitespace other than the line feed
Blank == {" ", "\t", "\r"}

W_let == <<"l", "e", "t">>
W_print == <<"p", "r", "i", "n", "t">>

\* let a=1;      print f(a);
Bases ==
    {<<W_let, <<" ">>, <<"a">>, <<"=">>, <<"1">>, <<";">>>>,
     <<W_print, <<" ">>, <<"f">>, <<"(">>, <<"a">>, <<")">>, <<";">>>>}

\* n entries c separated by commas
Separated(c, n) == [j \in 1..(2 * n - 1) |-> IF j % 2 = 1 THEN c ELSE ","]

\* def f(a,...,a){}  with n parameters, and  f(1,...,1);  with n arguments
ParametersText(n) ==
    <<"d", "e", "f", " ", "f", "(">> \o Separated("a", n) \o <<")", "{", "}">>

ArgumentsText(n) == <<"f", "(">> \o Separated("1", n) \o <<")", ";">>

Plain(source) == [words |-> <<source>>, at |-> 0, ch |-> " "]

\* print 1; print 2; print 3;   up to MaxStatements statements, statement j
\* with its semicolon where shape[j] holds and without it where not
MaxStatements == 3

RECURSIVE StatementsText(_, _)
StatementsText(shape, from) ==
    IF from > Len(shape) THEN <<>>
    ELSE W_print \o <<" ", ToString(from)>>
         \o (IF shape[from] THEN <<";">> ELSE <<>>) \o <<" ">>
         \o StatementsText(shape, from + 1)

\* the statements as they are, in a block, and in the body of a function
Wrapped(body, place) ==
    CASE place = "top" -> body
      [] place = "block" -> <<"{", " ">> \o body \o <<"}">>
      [] OTHER -> <<"d", "e", "f", " ", "f", "(", ")", "{", " ">> \o body \o <<"}">>

Places == {"top", "block", "function"}

RecoveryTexts ==
    {Plain(Wrapped(StatementsText(shape, 1), place)) :
        shape \in UNION {[1..n -> BOOLEAN] : n \in 1..MaxStatements},
        place \in Places}

Texts ==
    {Plain(s) : s \in UNION {[1..n -> Alphabet] : n \in 0..MaxSourceLen}}
    \cup {Plain(ParametersText(n)) : n \in {MaxParams, MaxParams + 1}}
    \cup {Plain(ArgumentsText(n)) : n \in {MaxParams, MaxParams + 1, MaxParams + 2}}
    \cup {[words |-> b, at |-> at, ch |-> ch] :
             b \in Bases, at \in 0..5, ch \in Blank}
    \cup RecoveryTexts

\* the characters of the words from the word `from` on, ch after the word `at`
RECURSIVE SourceOf(_, _, _, _)
SourceOf(words, at, ch, from) ==
    IF from > Len(words) THEN <<>>
    ELSE words[from] \o (IF from = at THEN <<ch>> ELSE <<>>)
         \o SourceOf(words, at, ch, from + 1)

NewFront(text) ==
    [text |-> text, lexer |-> NewLexer(SourceOf(text.words, text.at, text.ch, 1)),
     tokens |-> <<>>, spans |-> <<>>, phase |-> "lexing",
     ast |-> [k |-> "none", v |-> <<>>, errors |-> <<>>]]

FrontInit ==
    /\ prog = "source"
    /\ inp = [n |-> 0, m |-> 0, x |-> NoneV]
    /\ phase = "front"
    /\ pc = 1
    /\ st = NewInterpreter(<<>>, 0)
    /\ last = Ok(NoneV)
    /\ front \in {NewFront(text) : text \in Texts}

\* the parser takes the next token from the Lexer: one call of Lexer::next;
\* spans records the characters start..current of each token
Lex ==
    /\ front.phase = "lexing"
    /\ \E n \in {Lexer_next(front.lexer)} :
          front' = [front EXCEPT
                      !.lexer = n.lx,
                      !.tokens = IF n.k = "some" THEN Append(@, n.token) ELSE @,
                      !.spans = IF n.k = "some"
                                THEN Append(@, <<n.lx.start, n.lx.current>>) ELSE @,
                      !.phase = CASE n.k = "some" -> "lexing"
                                  [] n.k = "none" -> "lexed"
                                  [] OTHER -> "panicked"]
    /\ UNCHANGED <<prog, inp, phase, pc, st, last>>

\* Parser::parse over the tokens of the Lexer
Parse ==
    /\ front.phase = "lexed"
    /\ \E ast \in {parse(NewParser(front.tokens))} :
          front' = [front EXCEPT !.ast = ast,
                                 !.phase = IF ast.k = "panic" THEN "aborted"
                                           ELSE "parsed"]
    /\ UNCHANGED <<prog, inp, phase, pc, st, last>>

FrontNext == Lex \/ Parse

FrontSpec == FrontInit /\ [][FrontNext]_vars

-----------------------------------------------------------------------------
(* The environment store on its own: the calls the interpreter makes on the  *)
(* Environment, one per step.  st.environment is the store, st.stack the     *)
(* blocks and calls entered and not yet left, st.op the last call with its   *)
(* arguments, st.before the store that call started from; last is what the   *)
(* call returned.                                                            *)

\* the most calls made on one store, and the most slots it may hold
MaxEnvOps == 5
MaxSlots == 3

EnvNames == {"a", "b"}
EnvValues == {IntV(1), IntV(2)}
Depths == 0..2
Indexes == 0..1

\* every key the store has handed out, in the store or removed from it
KeysMade(e) ==
    {Key(idx, ver) : idx \in 1..Len(e.slot_ver), ver \in 1..3} \ 
    {k \in {Key(idx, ver) : idx \in 1..Len(e.slot_ver), ver \in 1..3} :
        \/ k.ver % 2 = 0
        \/ k.ver > e.slot_ver[k.idx]}

EnvInit ==
    /\ prog = "store"
    /\ inp = [n |-> 0, m |-> 0, x |-> NoneV]
    /\ phase = "store"
    /\ pc = 0
    /\ st = [environment |-> NewEnvironment, stack |-> <<>>,
             op |-> [k |-> "new"], before |-> NewEnvironment]
    /\ last = Ok(NoneV)
    /\ front = NoFront

\* the step of the store from e to e1 by the call op, returning r
EnvStep(e1, stack, op, r) ==
    /\ st' = [environment |-> e1, stack |-> stack, op |-> op,
              before |-> st.environment]
    /\ last' = r
    /\ pc' = pc + 1
    /\ phase' = IF r.k = "panic" THEN "panicked" ELSE "store"
    /\ UNCHANGED <<prog, inp, front>>

CanStep == phase = "store" /\ pc < MaxEnvOps

CanGrow == Len(st.environment.slot_ver) < MaxSlots \/ st.environment.free # <<>>

\* visit_decl_stmt, visit_function_stmt: Environment::define
EnvDefine ==
    /\ CanStep /\ Live(st.environment, st.environment.active)
    /\ Len(st.environment.envs[st.environment.active]) < Cardinality(Indexes)
    /\ \E name \in EnvNames, value \in EnvValues :
          EnvStep(define(st.environment, name, value), st.stack,
                  [k |-> "define", name |-> name, value |-> value], Ok(NoneV))

\* execute_block(.., None) on entry: Environment::new_local_env
EnvEnterBlock ==
    /\ CanStep /\ CanGrow
    /\ EnvStep(new_local_env(st.environment), <<[k |-> "block"]>> \o st.stack,
               [k |-> "new_local_env"], Ok(NoneV))

\* execute_block on exit: Environment::pop
EnvLeaveBlock ==
    /\ CanStep /\ st.stack # <<>> /\ Head(st.stack).k = "block"
    /\ \E p \in {pop(st.environment)} :
          EnvStep(p.e, Tail(st.stack), [k |-> "pop"], p.r)

\* SoxFunction::bind: Environment::new_local_env_at under the frame the method
\* captured, and define_at of `this`
EnvBind ==
    /\ CanStep /\ CanGrow
    /\ \E captured \in KeysMade(st.environment) :
          EnvStep(define_at(new_local_env_at(st.environment, captured), "this",
                            IntV(0), NextKey(st.environment)),
                  st.stack, [k |-> "new_local_env_at", at |-> captured], Ok(NoneV))

\* SoxFunction::call up to the body: the captured frame becomes the active
\* one, new_local_env_at makes the frame of the body, execute_block enters it
EnvCall ==
    /\ CanStep /\ CanGrow
    /\ \E captured \in KeysMade(st.environment) :
          EnvStep([new_local_env_at([st.environment EXCEPT !.active = captured],
                                    captured)
                     EXCEPT !.active = NextKey(st.environment)],
                  <<[k |-> "call", previous_env_ref |-> st.environment.active]>>
                      \o st.stack,
                  [k |-> "call", at |-> captured], Ok(NoneV))

\* SoxFunction::call after the body: execute_block pops the frame of the body
\* and the frame of the call site becomes the active one again
EnvReturn ==
    /\ CanStep /\ st.stack # <<>> /\ Head(st.stack).k = "call"
    /\ \E p \in {pop(st.environment)} :
          EnvStep(IF IsErr(p.r) THEN p.e
                  ELSE [p.e EXCEPT !.active = Head(st.stack).previous_env_ref],
                  Tail(st.stack), [k |-> "pop"], p.r)

\* visit_class_stmt with a superclass: new_local_env, define of `super`, and
\* the frame of the statement becomes the active one again without a pop
EnvSuperFrame ==
    /\ CanStep /\ CanGrow /\ Live(st.environment, st.environment.active)
    /\ EnvStep([define(new_local_env(st.environment), "super", IntV(0))
                  EXCEPT !.active = st.environment.active],
               st.stack, [k |-> "new_local_env"], Ok(NoneV))

\* lookup_variable: Environment::get
EnvGet ==
    /\ CanStep
    /\ \E name \in EnvNames, d \in Depths, i \in Indexes :
          EnvStep(st.environment, st.stack,
                  [k |-> "get", name |-> name, d |-> d, i |-> i],
                  get(st.environment, name, d, i))

\* visit_assign_expr: Environment::assign
EnvAssign ==
    /\ CanStep
    /\ \E name \in EnvNames, d \in Depths, i \in Indexes, value \in EnvValues :
       \E w \in {assign(st.environment, name, d, i, value)} :
          EnvStep(w.e, st.stack,
                  [k |-> "assign", name |-> name, d |-> d, i |-> i,
                   value |-> value], w.r)

EnvNext ==
    \/ EnvDefine \/ EnvEnterBlock \/ EnvLeaveBlock \/ EnvBind \/ EnvCall
    \/ EnvReturn \/ EnvSuperFrame \/ EnvGet \/ EnvAssign

EnvSpec == EnvInit /\ [][EnvNext]_vars

-----------------------------------------------------------------------------
(* Properties *)

Terminated == phase \notin {"parsed", "running"}

\* every frame on the parent chain that starts at k is in the store
RECURSIVE ChainLive(_, _)
ChainLive(e, k) ==
    /\ Live(e, k)
    /\ k \in DOMAIN e.env_link => ChainLive(e, e.env_link[k])

\* the frames captured by a value: of a function its own, of a class those of
\* its methods
CapturesLive(e, v) ==
    /\ v.t = "func" => ChainLive(e, v.v.environment_ref)
    /\ v.t = "type" => \A n \in DOMAIN v.v.attributes :
                            ChainLive(e, v.v.attributes[n].environment_ref)

\* the class chain C, base(C), base(base(C)), ...
RECURSIVE Chain(_)
Chain(typ) ==
    <<typ>> \o (IF Len(typ.base) = 1 THEN Chain(typ.base[1]) ELSE <<>>)

\* positions in the chain of the classes that declare name
Definers(typ, name) ==
    {d \in 1..Len(Chain(typ)) : name \in DOMAIN Chain(typ)[d].attributes}

\* the declared parameter count of the init a class call uses, 0 without init
InitArity(typ) ==
    LET ds == Definers(typ, "init")
        near == CHOOSE d \in ds : \A d2 \in ds : d <= d2
    IN IF ds = {} THEN 0
       ELSE Len(Chain(typ)[near].attributes["init"].declaration.params)

Expected(n, m) ==
    "Expected " \o ToString(n) \o " arguments but got " \o ToString(m)

Falsy(x) == x.t = "none" \/ (x.t = "bool" /\ x.v = FALSE)

\* a `return` that no function or method body encloses
RECURSIVE ReturnOutside(_)
ReturnOutside(stmt) ==
    CASE stmt.k = "Return" -> TRUE
      [] stmt.k = "Block" ->
            \E j \in 1..Len(stmt.statements) : ReturnOutside(stmt.statements[j])
      [] stmt.k = "If" ->
            \/ ReturnOutside(stmt.then_branch)
            \/ stmt.else_branch.k # "absent" /\ ReturnOutside(stmt.else_branch)
      [] stmt.k = "While" -> ReturnOutside(stmt.body)
      [] OTHER -> FALSE

\* C1: the frame captured by every function value bound in a live frame, held
\* in an instance field or being returned is in the store with its whole parent
\* chain; the closure `tick` returned by `make` keeps counting: 1, 2, 3.
C1_CapturedFramesStayLive ==
    LET e == st.environment IN
    /\ \A k \in DOMAIN e.envs : \A j \in 1..Len(e.envs[k]) :
            CapturesLive(e, e.envs[k][j].value)
    /\ \A o \in 1..Len(st.heap) : \A f \in DOMAIN st.heap[o].fields :
            CapturesLive(e, st.heap[o].fields[f])
    /\ last.k = "ok" => CapturesLive(e, last.v)
    /\ prog = "closure" => phase # "panicked"
    /\ prog = "closure" /\ inp.n = 0 /\ phase = "done" => st.out = <<"1", "2", "3">>

\* C2: a runtime error raised anywhere while a statement is evaluated reaches
\* `interpret`, which stops: once an error has been raised the run is halted
\* on it and no later statement runs.
C2_RaisedErrorHalts ==
    st.errs > 0 => phase = "halted" /\ last.k = "err"

\* C3: `i.m`, m not a field of i, gives the method m of the nearest class of
\* the chain of i's class that declares m, bound to i; it is the
\* undefined-property error exactly when no class of the chain declares m.
C3_NearestMethodWins ==
    \A j \in 1..Len(st.log) :
        LET ev == st.log[j]
            ds == Definers(ev.typ, ev.name)
            near == CHOOSE d \in ds : \A d2 \in ds : d <= d2
            m == Chain(ev.typ)[near].attributes[ev.name]
            bound == ev.r.v.v
        IN ev.ev = "get" /\ ~ev.field =>
              IF ds = {}
              THEN ev.r.k = "err" /\ ev.r.msg = "Undefined property - " \o ev.name
              ELSE /\ ev.r.k = "ok" /\ ev.r.v.t = "func"
                   /\ bound.declaration = m.declaration
                   /\ Live(st.environment, bound.environment_ref)
                   /\ st.environment.envs[bound.environment_ref][1]
                         = Binding("this", ev.inst)
                   /\ st.environment.env_link[bound.environment_ref]
                         = m.environment_ref

\* C3 happens: a method both the class and its base declare was looked up on
\* an instance and found.
C3_OverrideLookedUp ==
    \E j \in 1..Len(st.log) :
        /\ st.log[j].ev = "get" /\ ~st.log[j].field
        /\ {1, 2} \subseteq Definers(st.log[j].typ, st.log[j].name)
        /\ st.log[j].r.k = "ok"

\* C4: `super.m` in a method of B < A gives the method m found from A, bound
\* to `this`, or a runtime error when no class from A upward declares m:
\* `B().hi()` prints AB.
C4_SuperFindsMethod ==
    /\ \A j \in 1..Len(st.log) :
            st.log[j].ev = "super" => st.log[j].r.k \in {"ok", "err"}
    /\ prog = "super" /\ inp.n = 0 /\ Terminated =>
            phase = "done" /\ st.out = <<"AB">>
    /\ prog = "super" /\ inp.n = 1 /\ Terminated =>
            phase = "halted" /\ last.k = "err"

C6_ClassCallChecksArity ==
    \A j \in 1..Len(st.log) :
        LET ev == st.log[j] IN
        ev.ev = "new" =>
            /\ ev.r.k = "ok" => Len(ev.args) = InitArity(ev.typ)
            /\ Len(ev.args) # InitArity(ev.typ) => ev.r.k = "err"

\* C7: a call of a function declared with N parameters, N from 0 to 255, with
\* N arguments runs the body with parameter j bound to argument j; with
\* M # N arguments it raises "Expected N arguments but got M" and leaves the
\* environment as it was.
C7_ArityChecked ==
    \A j \in 1..Len(st.log) :
        LET ev == st.log[j]
            params == ev.fo.declaration.params
            N == Len(params)
            M == Len(ev.args)
        IN ev.ev = "call" =>
              IF M = N
              THEN /\ ev.entered
                   /\ ev.bound = [a \in 1..N |-> Binding(params[a].lexeme, ev.args[a])]
              ELSE /\ ~ev.entered
                   /\ ev.r.k = "err"
                   /\ ev.r.msg \in {Expected(N, M), Expected(N, M) \o "."}
                   /\ ev.same

\* C8: no call hands a Return on, `interpret` never receives a Return and
\* never prints one, and a program with a `return` outside every function and
\* method body is rejected by the resolver and never run.
C8_ReturnIntercepted ==
    /\ last.k # "ret"
    /\ \A j \in 1..Len(st.out) : st.out[j] # "Return"
    /\ \A j \in 1..Len(st.log) : st.log[j].ev = "call" => st.log[j].r.k # "ret"
    /\ (\E j \in 1..Len(Program(prog, inp).stmts) :
            ReturnOutside(Program(prog, inp).stmts[j]))
         => phase \in {"parsed", "rejected"}

\* C8 happens: a `return` inside a `while` inside a function ended the call,
\* and the program ran to its end.
C8_ReturnUnwoundLoop ==
    /\ prog = "return" /\ inp.n = 2 /\ phase = "done"
    /\ \E j \in 1..Len(st.log) :
            st.log[j].ev = "call" /\ st.log[j].r = Ok(IntV(1))

\* C9: in the programs that read or assign the unplaced, unbound name
\* undefined_name, once the access has failed the run is halted on the
\* NameError naming it, the global frame holds no binding of that name, and
\* the binding g = 1 is as it was.
C9_NameErrorHalts ==
    LET global == st.environment.envs[st.environment.global] IN
    prog = "name" /\ inp.n \in 0..4 =>
        /\ phase # "done"
        /\ st.errs > 0 =>
              /\ phase = "halted" /\ last.k = "err"
              /\ last.msg \in {NameError("undefined_name", ""),
                               NameError("undefined_name", ".")}
              /\ FirstIndex(global, "undefined_name") = 0
              /\ global[1] = Binding("g", IntV(1))

\* C10: the coercion is false exactly for none and false: with x of any
\* value, `if (x) a = 1; else a = 2;` leaves a = 2 exactly when x is none or
\* false, and `a = !x;` leaves a = true exactly then.
C10_TruthinessOfNoneAndFalse ==
    /\ prog = "truth" /\ inp.n = 0 /\ phase = "done" =>
            st.out = <<IF Falsy(inp.x) THEN "2" ELSE "1">>
    /\ prog = "truth" /\ inp.n = 1 /\ phase = "done" =>
            st.out = <<IF Falsy(inp.x) THEN "true" ELSE "false">>

\* the equality of two values as the language defines it: the same contents
\* for two values of one type, an integer widened against a float
SameValue(a, b) ==
    \/ a.t = b.t /\ a.v = b.v
    \/ {a.t, b.t} = {"int", "float"} /\ a.v = b.v

Shown(b) == IF b THEN "true" ELSE "false"

\* C11: `a == b` is true exactly when a and b are of one type with equal
\* contents, or an integer and a float of the same number, and none equals
\* only none; `a != b` is the negation of `a == b`.
C11_EqualityByContents ==
    prog = "equality" /\ phase = "done" =>
        st.out = <<Shown(SameValue(Operands[inp.n], Operands[inp.m])),
                   Shown(~SameValue(Operands[inp.n], Operands[inp.m]))>>

\* in LogicProgram the right operand is the one to skip: `or` with a truthy
\* left operand, `and` with a falsy one
Skips(i) == IF i.n \in {0, 2} THEN ~Falsy(i.x) ELSE Falsy(i.x)

\* C12: `<x> or b` with x truthy and `<x> and b` with x falsy print the value
\* of x itself and leave b unevaluated: the assignment in b does not happen
\* (a stays 0) and the undefined name in b raises no error; otherwise the
\* value of b is printed and its assignment has happened.
C12_ShortCircuitYieldsOperand ==
    /\ prog = "logic" /\ Skips(inp) => st.errs = 0 /\ phase # "halted"
    /\ prog = "logic" /\ Skips(inp) /\ phase = "done" =>
            st.out = <<Repr(inp.x), "0">>
    /\ prog = "logic" /\ ~Skips(inp) /\ inp.n \in {0, 1} /\ phase = "done" =>
            st.out = <<"7", "7">>
    /\ prog = "logic" /\ ~Skips(inp) /\ inp.n \in {2, 3} => phase # "done"

\* the value bound to `name` in the global frame
GlobalValue(name) ==
    LET global == st.environment.envs[st.environment.global] IN
    global[FirstIndex(global, name)].value

\* the calls of f that the run has made
CallsOfF == {j \in DOMAIN st.log : st.log[j].ev = "call"}

\* C13: in a call the callee is evaluated first, then the arguments from left
\* to right, each once, and the first argument that raises an error ends the
\* evaluation before later arguments and before the call; a binary operation
\* evaluates its right operand before its left one.  In OrderProgram the
\* trace t records the order.
C13_EvaluationOrder ==
    /\ prog = "order" /\ inp.n \in {0, 2} => phase # "halted"
    /\ prog = "order" /\ inp.n = 0 /\ phase = "done" =>
            GlobalValue("t") = StrV("123f") /\ Cardinality(CallsOfF) = 1
    /\ prog = "order" /\ inp.n = 1 /\ pc = 3 =>
            /\ phase \in {"running", "halted"}
            /\ phase = "halted" =>
                  /\ GlobalValue("t") = StrV("1")
                  /\ CallsOfF = {}
                  /\ last = ErrR(NameError("undefined_name", "."))
    /\ prog = "order" /\ inp.n = 2 /\ phase = "done" =>
            GlobalValue("t") = StrV("RL") /\ st.out = <<"RLR">>
    /\ prog = "order" /\ inp.n = 3 /\ pc = 3 =>
            /\ phase \in {"running", "halted"}
            /\ phase = "halted" =>
                  GlobalValue("t") = StrV("") /\ last.k = "err"

\* a run stopped at the erroring second argument, after the first argument
\* was evaluated
C13_StoppedAtSecondArgument ==
    prog = "order" /\ inp.n = 1 /\ phase = "halted" /\ GlobalValue("t") = StrV("1")

\* C14: a second declaration of a name in one scope that is not the global
\* one (two `let a` in a block, a parameter named twice) makes the resolver
\* fail, so the program is never run; a second declaration at global scope,
\* or in a nested scope, is accepted.
C14_DuplicateDeclarationRejected ==
    /\ prog = "duplicate" /\ inp.n \in {0, 1} => phase \in {"parsed", "rejected"}
    /\ prog = "duplicate" /\ inp.n \in {2, 3} => phase # "rejected"

\* the programs of ClassContextProgram whose `this` or `super` is misplaced
Misplaced == {0, 1, 3, 5, 7, 8, 9, 11}

\* C15: the resolver rejects a program exactly when its `this` stands outside
\* every class or its `super` stands outside every class or in a class
\* without a superclass, the class being the innermost one around the
\* expression; after a nested class the verdict is that of the outer class.
C15_ThisAndSuperNeedTheirClass ==
    /\ prog = "classcontext" /\ inp.n \in Misplaced =>
            /\ phase \in {"parsed", "rejected"}
            /\ phase = "rejected" =>
                  st.out \in {<<"Can't use 'this' outside of a class">>,
                              <<"Can't use 'super' outside of a class">>,
                              <<"Can't use 'super' in a class with no superclass">>}
    /\ prog = "classcontext" /\ inp.n \notin Misplaced => phase # "rejected"

\* the resolver has accepted `super` after a nested class without superclass,
\* and has rejected it after a nested class with one
C15_VerdictOfOuterClass ==
    prog = "classcontext" /\ (\/ inp.n = 6 /\ phase = "done"
                              \/ inp.n = 8 /\ phase = "rejected")

-----------------------------------------------------------------------------
(* The front end: properties of the lexer and of the parser *)

\* the source text of the run
Source == SourceOf(front.text.words, front.text.at, front.text.ch, 1)

\* C16: parse ends for every token stream, the empty one and the ones that
\* stop in the middle of a statement included, with the statements exactly
\* when no syntax error was reported (none for an empty or whitespace-only
\* source) and with the collected errors otherwise; it never aborts.
C16_ParseNeverAborts ==
    /\ front.phase # "aborted"
    /\ front.phase = "parsed" =>
          /\ front.ast.k \in {"ok", "err"}
          /\ front.ast.k = "ok" <=> front.ast.errors = <<>>
          /\ front.ast.k = "err" => front.ast.v = front.ast.errors
          /\ (\A i \in 1..Len(Source) : Source[i] \in {" ", "\n"}) =>
                front.ast = [k |-> "ok", v |-> <<>>, errors |-> <<>>]

\* C17: a parameter list of 255 names and an argument list of 255 expressions
\* are parsed, every entry kept; a parameter list and an argument list of 256
\* entries are syntax errors.
C17_ListLimit ==
    front.phase \in {"parsed", "aborted"} =>
       /\ front.text = Plain(ParametersText(MaxParams)) =>
             /\ front.ast.k = "ok"
             /\ Len(front.ast.v[1].params) = MaxParams
       /\ front.text = Plain(ArgumentsText(MaxParams)) =>
             /\ front.ast.k = "ok"
             /\ Len(front.ast.v[1].expr.arguments) = MaxParams
       /\ front.text = Plain(ParametersText(MaxParams + 1)) => front.ast.k = "err"
       /\ front.text = Plain(ArgumentsText(MaxParams + 1)) => front.ast.k = "err"

\* C18: the tokens of a source are finitely many, each step of the lexer
\* takes at least one character of the source, and the token sequence ends
\* with the end-of-input token.
C18_TokensEndWithEndOfInput ==
    /\ \A i \in 1..Len(front.spans) : front.spans[i][2] > front.spans[i][1]
    /\ Len(front.tokens) <= Len(Source)
    /\ front.phase \in {"lexed", "parsed", "aborted"} =>
          /\ front.tokens # <<>>
          /\ front.tokens[Len(front.tokens)].token_type = "EOF"

\* the double quotes of the source
Quotes == {i \in 1..Len(Source) : Source[i] = "\""}

\* a source without comments whose last double quote opens a string literal:
\* the quotes before it pair up, whatever stands between them
Unterminated ==
    /\ \A i \in 1..Len(Source) : Source[i] # "/"
    /\ Cardinality(Quotes) % 2 = 1

\* C19: when a double quote opens a string literal that no later double quote
\* closes, lexing fails fatally and yields no string token for it, also when
\* the opening quote is the last character of the source.
C19_UnterminatedStringIsFatal ==
    Unterminated =>
       /\ front.phase \in {"lexing", "panicked"}
       /\ Cardinality({i \in 1..Len(front.tokens) :
                          front.tokens[i].token_type = "SoxString"})
             <= (Cardinality(Quotes) - 1) \div 2

\* the tokens that the iterator yields from lx on
RECURSIVE LexAll(_)
LexAll(lx) ==
    Let(Lexer_next(lx), LAMBDA n :
    IF n.k = "some" THEN <<n.token>> \o LexAll(n.lx) ELSE <<>>)

\* C20: a space, a tab or a carriage return put between two adjacent tokens
\* of a program changes neither whether the program is parsed nor the
\* statements parsed from it.
C20_BlankBetweenTokensIgnored ==
    front.phase \in {"parsed", "aborted"} /\ front.text.words \in Bases
        /\ front.text.at > 0 =>
       front.ast = parse(NewParser(LexAll(NewLexer(
                                      SourceOf(front.text.words, 0, " ", 1)))))

-----------------------------------------------------------------------------
(* Frames                                                                    *)

\* the events of the blocks that returned
Blocks == {j \in DOMAIN st.log : st.log[j].ev = "block"}

\* C21: when execute_block returns, after its last statement, through a
\* Return or through a runtime error raised at any depth inside it, the
\* active frame is the one that was active when the block was entered; the
\* frame it popped is not the global frame, which stays in the store
C21_BlockRestoresActiveFrame ==
    /\ \A j \in Blocks :
          /\ st.log[j].left = st.log[j].entered
          /\ st.log[j].popped # st.environment.global
    /\ st.environment.global = Key(1, 1)
    /\ Live(st.environment, st.environment.global)

\* a block that ran inside a function called from a block returned through a
\* Return, and a block holding deeper blocks returned through a runtime error
C21_Witness_NestedReturnAndError ==
    \/ /\ prog = "frames" /\ inp.n = 1 /\ inp.m = 2 /\ phase = "done"
       /\ \E j \in Blocks : st.log[j].r = "ret" /\ st.log[j].inner = 2
       /\ \E j \in Blocks : st.log[j].r = "ok" /\ st.log[j].inner = 4
    \/ /\ prog = "frames" /\ inp.n = 3 /\ inp.m = 2 /\ phase = "halted"
       /\ \E j \in Blocks : st.log[j].r = "err" /\ st.log[j].inner = 5

\* the events of the calls of functions and methods, and of classes
Calls == {j \in DOMAIN st.log : st.log[j].ev = "call"}
ClassCalls == {j \in DOMAIN st.log : st.log[j].ev = "new"}

\* C27: when a function, method or class call finishes, with a value, with a
\* runtime error of the body or with an arity error, the active frame is the
\* one of the call site; the frame of the body had the callee's captured
\* frame as its parent
C27_CallRestoresCallSiteFrame ==
    /\ \A j \in Calls :
          /\ st.log[j].after = st.log[j].at
          /\ st.log[j].entered => st.log[j].parent = st.log[j].fo.environment_ref
    /\ \A j \in ClassCalls : st.log[j].after = st.log[j].at

\* a function captured in the global frame was called from a block and its
\* body failed three blocks deep
C27_Witness_ErrorInBodyCalledFromBlock ==
    /\ prog = "frames" /\ inp.n = 3 /\ inp.m = 2 /\ phase = "halted"
    /\ \E j \in Calls :
          /\ st.log[j].entered /\ st.log[j].r.k = "err"
          /\ st.log[j].fo.environment_ref = st.environment.global
          /\ st.log[j].at # st.environment.global
          /\ st.log[j].parent = st.environment.global

\* the counter the store keeps for a frame, 0 when it keeps none
Counter(e, k) == IF RcContains(e.env_rc, k) THEN e.env_rc[k.idx].val ELSE 0

\* the frames of the store whose parent link points to k
Children(e, k) == {c \in DOMAIN e.envs : c \in DOMAIN e.env_link /\ e.env_link[c] = k}

\* every frame of the store has as many children as its counter says
Counted(e) == \A k \in DOMAIN e.envs : Counter(e, k) = Cardinality(Children(e, k))

-----------------------------------------------------------------------------
(* The environment store                                                     *)

\* the frame d parent links away from k, NoKey when the chain is shorter
RECURSIVE Ancestor(_, _, _)
Ancestor(e, k, d) ==
    IF d = 0 THEN k
    ELSE IF k \notin DOMAIN e.env_link THEN NoKey
    ELSE Ancestor(e, e.env_link[k], d - 1)

\* the bindings a frame holds in the store, in insertion order
BindingsOf(e, k) == IF Live(e, k) THEN e.envs[k] ELSE <<>>

\* what the lookup at (d, i) is to return from the store e
Looked(e, name, d, i) ==
    LET bindings == BindingsOf(e, Ancestor(e, e.active, d)) IN
    IF i + 1 <= Len(bindings) THEN Ok(bindings[i + 1].value)
    ELSE ErrR(NameError(name, ""))

\* C23: the indexed lookup at (d, i) returns the i-th binding of the frame d
\* parent links from the active frame, and a NameError when that frame
\* holds fewer than i + 1 bindings or the chain has fewer than d parents
C23_IndexedLookup ==
    (phase \in {"store", "panicked"} /\ st.op.k = "get") =>
        last = Looked(st.before, st.op.name, st.op.d, st.op.i)

\* every frame on the way from the active frame of e to depth d is in the store
ChainInStore(e, d) ==
    \A j \in 0..d : Ancestor(e, e.active, j) = NoKey
                     \/ Live(e, Ancestor(e, e.active, j))

\* the coordinates (d, i) address a binding called name in the store e
Addresses(e, name, d, i) ==
    /\ i + 1 <= Len(BindingsOf(e, Ancestor(e, e.active, d)))
    /\ e.envs[Ancestor(e, e.active, d)][i + 1].name = name

\* C25: after the indexed assignment of v at coordinates (d, i) that address
\* a binding of that name, the lookup at (d, i) returns v; the frames, the
\* names and the other values, the parent links and the active frame are
\* as before
C25_IndexedAssign ==
    (phase = "store" /\ st.op.k = "assign"
     /\ Addresses(st.before, st.op.name, st.op.d, st.op.i)) =>
        LET e0 == st.before
            e1 == st.environment
            target == Ancestor(e0, e0.active, st.op.d)
        IN /\ last = Ok(NoneV)
           /\ get(e1, st.op.name, st.op.d, st.op.i) = Ok(st.op.value)
           /\ DOMAIN e1.envs = DOMAIN e0.envs
           /\ \A k \in DOMAIN e0.envs :
                 /\ Len(e1.envs[k]) = Len(e0.envs[k])
                 /\ \A j \in 1..Len(e0.envs[k]) :
                       /\ e1.envs[k][j].name = e0.envs[k][j].name
                       /\ <<k, j>> # <<target, st.op.i + 1>> =>
                              e1.envs[k][j].value = e0.envs[k][j].value
           /\ e1.env_link = e0.env_link
           /\ e1.active = e0.active
           /\ e1.global = e0.global
           /\ e1.env_rc = e0.env_rc

\* an assignment one frame out replaced the value of a binding whose name a
\* nearer frame binds as well
C25_Witness_AssignPastShadow ==
    /\ phase = "store" /\ st.op.k = "assign" /\ st.op.d = 1
    /\ Addresses(st.before, st.op.name, 1, st.op.i)
    /\ st.before.envs[Ancestor(st.before, st.before.active, 1)][st.op.i + 1].value
          # st.op.value
    /\ FirstIndex(st.before.envs[st.before.active], st.op.name) # 0

\* the frames the last call on the store removed
Removed == (DOMAIN st.before.envs) \ (DOMAIN st.environment.envs)

\* C30: the counter of a frame is the number of frames of the store whose
\* parent link points to it, and is never negative; only pop removes a frame,
\* only the active one and only when its counter is zero, and the counter of
\* its parent is then one less
C30_CounterCountsChildren ==
    phase = "store" =>
        /\ Counted(st.environment)
        /\ \A j \in DOMAIN st.environment.env_rc : st.environment.env_rc[j].val >= 0
        /\ \A k \in Removed :
              /\ st.op.k = "pop"
              /\ k = st.before.active
              /\ Counter(st.before, k) = 0
              /\ Counter(st.environment, st.before.env_link[k])
                    = Counter(st.before, st.before.env_link[k]) - 1

\* a pop removed one of the two children of a frame
C30_Witness_SecondChildRemoved ==
    /\ phase = "store" /\ st.op.k = "pop"
    /\ \E k \in Removed :
          /\ Counter(st.before, st.before.env_link[k]) = 2
          /\ Counter(st.environment, st.before.env_link[k]) = 1

-----------------------------------------------------------------------------
(* Globals declared more than once                                           *)

\* what `print a` shows after the declarations of RedeclareProgram
LatestDeclared ==
    CASE inp.n = 0 -> "2"
      [] inp.n = 1 -> "<Function a>"
      [] inp.n = 2 -> "<object>"
      [] OTHER -> "3"

\* C28: after a global name was declared a second time, by let, fn or class,
\* a read by name returns the value of the latest declaration, and an
\* assignment by name writes the binding that later reads return
C28_LatestGlobalDeclarationWins ==
    (prog = "redeclare" /\ phase = "done") => st.out = <<LatestDeclared>>

-----------------------------------------------------------------------------
(* Integer arithmetic                                                        *)

\* C29: `a op b` for op among + - * / % and 64-bit integers a and b ends in
\* a value or a runtime error and never aborts the interpreter, a zero right
\* operand and a result out of the 64-bit range included; + - * % yield an
\* integer and / yields a float
C29_IntegerArithmeticNeverAborts ==
    prog = "arith" =>
        /\ phase # "panicked"
        /\ phase = "done" =>
              GlobalValue("r").t = IF ArithOps[inp.n] = "Slash" THEN "float"
                                   ELSE "int"

-----------------------------------------------------------------------------
(* Error recovery of the parser                                              *)

\* the tokens the parser does not skip
Significant == SelectSeq(front.tokens, LAMBDA tk : tk.token_type \notin TO_IGNORE)

\* the print statements of the source that lack their semicolon
Lacking ==
    {j \in DOMAIN Significant :
        /\ Significant[j].token_type = "Print"
        /\ ~(j + 2 <= Len(Significant) /\ Significant[j + 2].token_type = "Semi")}

\* C26: after a syntax error, at top level, in a block or in a function, the
\* parser discards tokens through the next `;` or up to the next statement
\* keyword and goes on from there, so that of a run of print statements each
\* one that lacks its `;` is collected as one error: one error for a single
\* missing `;`, a further one for a statement after the resumption point
C26_OneErrorPerMissingSemicolon ==
    (front.phase \in {"parsed", "aborted"} /\ front.text \in RecoveryTexts) =>
        /\ front.ast.k \in {"ok", "err"}
        /\ Len(front.ast.errors) = Cardinality(Lacking)

-----------------------------------------------------------------------------
(* The resolver's table *)

\* the resolver after the program; its table is st.locals while the program runs
Resolved ==
    resolve(NewResolver(Program(prog, inp).tokens), Program(prog, inp).stmts, 1)

Accepted == phase \in {"running", "done", "halted", "panicked", "diverged"}

\* the scope has an entry of the name
Declares(scope, lexeme) == \E idx \in 1..Len(scope) : scope[idx][1].lexeme = lexeme

\* the scopes open around a reference that declare its name, as hops outwards
Declaring(ev) ==
    {d \in 0..(Len(ev.scopes) - 1) :
        Declares(ev.scopes[Len(ev.scopes) - d], ev.name.lexeme)}

\* C24: a reference inside at least one scope is recorded with the hops to the
\* innermost open scope that declares its name and the position of a
\* declaration of the name in that scope; a reference whose name no open scope
\* declares has no entry
C24_InnermostDeclarationRecorded ==
    Accepted =>
        \A k \in 1..Len(Resolved.seen) :
            \E ev \in {Resolved.seen[k]} :
                /\ Declaring(ev) = {} => ev.name \notin DOMAIN st.locals
                /\ Declaring(ev) # {} =>
                      /\ ev.name \in DOMAIN st.locals
                      /\ \E at \in {st.locals[ev.name]} :
                            /\ at[1] \in Declaring(ev)
                            /\ \A d \in Declaring(ev) : at[1] <= d
                            /\ at[2] + 1 <= Len(ev.scopes[Len(ev.scopes) - at[1]])
                            /\ ev.scopes[Len(ev.scopes) - at[1]][at[2] + 1][1].lexeme
                                   = ev.name.lexeme

\* a running program with a reference two hops out, a reference to a name
\* declared in two open scopes and a reference to a name declared in none
C24_Witness_ShadowedAndUndeclared ==
    /\ phase = "running"
    /\ \E k \in 1..Len(Resolved.seen) :
          /\ Cardinality(Declaring(Resolved.seen[k])) = 2
          /\ st.locals[Resolved.seen[k].name] = <<1, 1>>
    /\ \E k \in 1..Len(Resolved.seen) :
          /\ Declaring(Resolved.seen[k]) = {2}
          /\ st.locals[Resolved.seen[k].name] = <<2, 1>>
    /\ \E k \in 1..Len(Resolved.seen) :
          /\ Len(Resolved.seen[k].scopes) = 3
          /\ Declaring(Resolved.seen[k]) = {}
          /\ Resolved.seen[k].name \notin DOMAIN st.locals

-----------------------------------------------------------------------------
(* Scopes and frames *)

\* the programs that call a function after the call that made it has returned
CalledAfterExit == prog = "closure" /\ inp.n # 1

\* C22: in an accepted program that calls no function after the block or call
\* that made it has exited, every resolved reference, assignment target or
\* `this` the evaluator reaches finds, at its depth and index, a binding of
\* its name
C22_ScopesMirrorFrames ==
    Accepted /\ ~CalledAfterExit =>
        \A k \in 1..Len(st.log) : st.log[k].ev = "ref" => st.log[k].holds
====
